---- MODULE Spec2Model ----
(***************************************************************************)
(* LLM-Automapper: the DataMapper (services/data-mapper.js), the           *)
(* similarity engine (utils/vector-utils.js), the embedding adapter        *)
(* (NomicEmbedder) and the store reload of the command line (index.js).    *)
(*                                                                         *)
(* Seven specifications share the definitions below:                       *)
(*   Spec      one DataMapper instance and every operation on it, the      *)
(*             embedding service answering vectors of two lengths          *)
(*   SpecQuery loads and retrievals over stores of several documents and   *)
(*             fields                                                      *)
(*   SpecMap   loads and mappings, onto a target with more fields than the *)
(*             three candidates a mapping entry keeps                      *)
(*   SpecBatch the embedBatch calls of the embedder, request by request    *)
(*   SpecBatchSizes one embedBatch call with a batch size that is          *)
(*             positive, zero or negative, every request completing        *)
(*   SpecParse the parser call by call: parseDataFile, parseMixedContent,  *)
(*             extractFieldsFromText and the schema walker, over texts     *)
(*             given character by character                                *)
(*   SpecVector cosineSimilarity and findSimilarVectors call by call       *)
(***************************************************************************)
EXTENDS Integers, Sequences, FiniteSets, TLC

VARIABLES
    vectorStore,   \* DataMapper.vectorStore: sequence of {vector, metadata}
    initialized,   \* DataMapper.initialized
    pc,            \* "idle", or the await a loadDataFiles / mapDataStructures call is at
    call,          \* the locals of the call in progress
    last,          \* the last call completed on the mapper, and how it ended
    batch          \* the embedBatch call in progress (SpecBatch)

vars == <<vectorStore, initialized, pc, call, last, batch>>

---------------------------------------------------------------------------
(* Bounds of the model *)

\* Calls that grow the store are made while the result fits in MaxStore
\* records (Spec), MaxQueryStore records (SpecQuery), MaxMapStore records (SpecMap).
MaxStore == 4
MaxQueryStore == 5
MaxMapStore == 7
\* topK arguments given to extractKnowledgeFromVectorDB range over -1..MaxTopK.
MaxTopK == 2
\* embedBatch (SpecBatch) is given 0..MaxTexts texts and a batchSize in 1..MaxBatchSize.
MaxTexts == 3
MaxBatchSize == 3
\* The loop index of an embedBatch call that never ends (SpecBatchSizes) is
\* followed down to -MaxIdleTurns.
MaxIdleTurns == 3

(* Program constants *)

\* embedBatch(texts, batchSize = 32)
DefaultBatchSize == 32
\* mapDataStructures: findSimilarVectors(..., 3)
TopMatches == 3
\* mapDataStructures: extractKnowledgeFromVectorDB(..., 3)
MapEnrichTopK == 3
\* analyzeWithVectorDB: extractKnowledgeFromVectorDB(query, 5)
AnalyzeTopK == 5

---------------------------------------------------------------------------
(* Arithmetic *)

Abs(n) == IF n < 0 THEN -n ELSE n

Min(a, b) == IF a <= b THEN a ELSE b

Max(a, b) == IF a >= b THEN a ELSE b

RECURSIVE Gcd(_, _)
Gcd(a, b) == IF b = 0 THEN a ELSE Gcd(b, a % b)

\* Math.sqrt on the squared norms of the vectors of the model, all perfect
\* squares: the square root is exact, in the code's doubles as here.
ISqrt(n) == CHOOSE r \in 0..n : r * r = n

\* A number of the code that is a quotient of integers, in lowest terms.
Rat(n, d) ==
    LET g == Gcd(Abs(n), Abs(d))
    IN  [num |-> n \div g, den |-> d \div g]

\* a < b, for two such numbers (denominators are positive)
RatLess(a, b) == a.num * b.den < b.num * a.den

---------------------------------------------------------------------------
(* utils/vector-utils.js *)

RECURSIVE SumTo(_, _)
SumTo(f, n) == IF n = 0 THEN 0 ELSE f[n] + SumTo(f, n - 1)

\* What a throwing cosineSimilarity leaves in place of a number.
DimensionMismatch == [ok |-> FALSE, num |-> 0, den |-> 1]

\* A faulty cosine: no check of the lengths, a missing component read as 0.
CosineSimilarityPadded(a, b) ==
    LET n == Max(Len(a), Len(b))
        x == [i \in 1..n |-> IF i <= Len(a) THEN a[i] ELSE 0]
        y == [i \in 1..n |-> IF i <= Len(b) THEN b[i] ELSE 0]
        dotProduct == SumTo([i \in 1..n |-> x[i] * y[i]], n)
        normA == SumTo([i \in 1..n |-> x[i] * x[i]], n)
        normB == SumTo([i \in 1..n |-> y[i] * y[i]], n)
    IN  IF normA = 0 \/ normB = 0
        THEN [ok |-> TRUE, num |-> 0, den |-> 1]
        ELSE [ok |-> TRUE] @@ Rat(dotProduct, ISqrt(normA) * ISqrt(normB))

\* cosineSimilarity(a, b): throws on vectors of different lengths, 0 for a
\* zero norm, else dot / (sqrt(normA) * sqrt(normB)).
CosineSimilarity(a, b) ==
    IF Len(a) # Len(b)
    THEN DimensionMismatch
    ELSE LET dotProduct == SumTo([i \in 1..Len(a) |-> a[i] * b[i]], Len(a))
             normA == SumTo([i \in 1..Len(a) |-> a[i] * a[i]], Len(a))
             normB == SumTo([i \in 1..Len(b) |-> b[i] * b[i]], Len(b))
         IN  IF normA = 0 \/ normB = 0
             THEN [ok |-> TRUE, num |-> 0, den |-> 1]
             ELSE [ok |-> TRUE] @@ Rat(dotProduct, ISqrt(normA) * ISqrt(normB))

\* Array.prototype.slice(0, end)
Slice0(seq, end) ==
    LET stop == IF end < 0 THEN Max(Len(seq) + end, 0) ELSE Min(end, Len(seq))
    IN  SubSeq(seq, 1, stop)

\* A faulty comparison, a.similarity - b.similarity: x goes before the first
\* element of a greater similarity.
InsertAscending(sorted, x) ==
    LET greater == {i \in 1..Len(sorted) : RatLess(x.similarity, sorted[i].similarity)}
        at == IF greater = {} THEN Len(sorted) + 1
              ELSE CHOOSE i \in greater : \A j \in greater : i <= j
    IN  SubSeq(sorted, 1, at - 1) \o <<x>> \o SubSeq(sorted, at, Len(sorted))

\* One step of a stable sort by (a, b) => b.similarity - a.similarity:
\* x goes before the first element of a smaller similarity.
InsertDescending(sorted, x) ==
    LET smaller == {i \in 1..Len(sorted) : RatLess(sorted[i].similarity, x.similarity)}
        at == IF smaller = {} THEN Len(sorted) + 1
              ELSE CHOOSE i \in smaller : \A j \in smaller : i <= j
    IN  SubSeq(sorted, 1, at - 1) \o <<x>> \o SubSeq(sorted, at, Len(sorted))

\* results.sort((a, b) => b.similarity - a.similarity), of the first n results
RECURSIVE SortUpTo(_, _)
SortUpTo(results, n) ==
    IF n = 0 THEN <<>> ELSE InsertDescending(SortUpTo(results, n - 1), results[n])

\* findSimilarVectors(queryVector, vectorStore, topK): ok is FALSE when
\* cosineSimilarity threw for one of the items.
FindSimilarVectors(queryVector, items, topK) ==
    LET results == [i \in 1..Len(items) |->
                       [similarity |-> CosineSimilarity(queryVector, items[i].vector),
                        metadata |-> items[i].metadata]]
    IN  IF \E i \in 1..Len(items) : ~results[i].similarity.ok
        THEN [ok |-> FALSE, results |-> <<>>]
        ELSE [ok |-> TRUE, results |-> Slice0(SortUpTo(results, Len(results)), topK)]

---------------------------------------------------------------------------
(* JavaScript values, as JSON.parse builds them *)

JUndef == [t |-> "undef"]
JNull == [t |-> "null"]
JStr(s) == [t |-> "str", s |-> s]
JNum(n) == [t |-> "num", n |-> n]
JArr(items) == [t |-> "arr", items |-> items]
\* kv: the entries <<key, value>> in insertion order
JObj(kv) == [t |-> "obj", kv |-> kv]

\* if (v)
Truthy(v) ==
    CASE v.t \in {"undef", "null"} -> FALSE
      [] v.t = "str" -> v.s # ""
      [] v.t = "num" -> v.n # 0
      [] OTHER -> TRUE

\* v && typeof v === 'object'
IsObject(v) == v.t \in {"obj", "arr"}

\* v[key] of a non-null value
Get(v, key) ==
    IF v.t = "obj" /\ \E i \in 1..Len(v.kv) : v.kv[i][1] = key
    THEN v.kv[CHOOSE i \in 1..Len(v.kv) : v.kv[i][1] = key][2]
    ELSE JUndef

DigitStr(n) == <<"0", "1", "2", "3", "4", "5", "6", "7", "8", "9">>[n + 1]

\* Object.entries(v)
Entries(v) ==
    CASE v.t = "obj" -> v.kv
      [] v.t = "arr" -> [i \in 1..Len(v.items) |-> <<DigitStr(i - 1), v.items[i]>>]
      [] OTHER -> <<>>

\* `${v}` of a value that is no array
ToStr(v) ==
    CASE v.t = "str" -> v.s
      [] v.t = "num" -> DigitStr(v.n)
      [] v.t = "null" -> "null"
      [] v.t = "undef" -> "undefined"
      [] OTHER -> "[object Object]"

---------------------------------------------------------------------------
(* The files the calls are given, and the texts the generation service      *)
(* answers. JSON.parse and the regular expressions of the parser are        *)
(* library code: each text carries what they make of it.                    *)

\* A line `Name: description`; typeWord is the type word of the description
\* ("" when it has none).
KV(name, desc, typeWord) == [k |-> "kv", name |-> name, desc |-> desc, typeWord |-> typeWord]
\* A line that holds no `name:`, ` - ` or bullet pattern; caps: its capitalized words.
Raw(caps) == [k |-> "raw", caps |-> caps]

NotJSON == [t |-> "invalid"]

\* text |-> [json: JSON.parse(text) or NotJSON, lines: the text line by line]
Texts ==
    [t \in {"null", "person", "customer", "wide", "notes", "", "answer", "N/A"} |->
       CASE t = "null" -> [json |-> JNull, lines |-> <<Raw(<<>>)>>]
         [] t = "person" ->
              [json |-> JObj(<< <<"name", JStr("Ann")>> >>),
               lines |-> <<Raw(<<"Ann">>)>>]
         [] t = "customer" ->
              [json |-> JObj(<< <<"schema", JObj(<<
                            <<"id", JObj(<< <<"type", JStr("string")>> >>)>>,
                            <<"address", JObj(<<
                                <<"city", JObj(<< <<"type", JStr("string")>>,
                                                  <<"description", JStr("town")>> >>)>>
                            >>)>> >>)>> >>),
               lines |-> <<Raw(<<>>)>>]
         [] t = "wide" ->
              [json |-> JObj(<< <<"a", JNum(1)>>, <<"b", JNum(2)>>,
                                <<"c", JNum(3)>>, <<"d", JNum(4)>> >>),
               lines |-> <<Raw(<<>>)>>]
         [] t = "notes" ->
              [json |-> NotJSON,
               lines |-> <<KV("CustomerID", "unique identifier", ""),
                           KV("Email", "contact email", "")>>]
         [] t = "" -> [json |-> NotJSON, lines |-> <<>>]
         [] t = "answer" ->
              [json |-> JObj(<< <<"fields", JArr(<<
                            JObj(<< <<"field", JStr("CustomerID")>>,
                                    <<"type", JStr("string")>>,
                                    <<"description", JStr("unique identifier")>> >>),
                            JObj(<< <<"field", JStr("Email")>>,
                                    <<"description", JStr("contact email")>> >>) >>)>> >>),
               lines |-> <<Raw(<<>>)>>]
         [] t = "N/A" -> [json |-> NotJSON, lines |-> <<Raw(<<>>)>>]]

\* path |-> what fs.readFile, path.basename and path.extname give for it
Files ==
    [p \in {"d/null.json", "d/person.json", "d/customer.json", "d/wide.json",
            "d/notes.txt", "d/empty.json", "d/missing.json"} |->
       CASE p = "d/null.json"     -> [exists |-> TRUE, filename |-> "null.json", ext |-> ".json", content |-> "null"]
         [] p = "d/person.json"   -> [exists |-> TRUE, filename |-> "person.json", ext |-> ".json", content |-> "person"]
         [] p = "d/customer.json" -> [exists |-> TRUE, filename |-> "customer.json", ext |-> ".json", content |-> "customer"]
         [] p = "d/wide.json"     -> [exists |-> TRUE, filename |-> "wide.json", ext |-> ".json", content |-> "wide"]
         [] p = "d/notes.txt"     -> [exists |-> TRUE, filename |-> "notes.txt", ext |-> ".txt", content |-> "notes"]
         [] p = "d/empty.json"    -> [exists |-> TRUE, filename |-> "empty.json", ext |-> ".json", content |-> ""]
         [] p = "d/missing.json"  -> [exists |-> FALSE, filename |-> "missing.json", ext |-> ".json", content |-> ""]]

---------------------------------------------------------------------------
(* DataMapper: the structure parser *)

\* name.toLowerCase(), over the names of the texts above
LowerCase(name) ==
    CASE name = "Document" -> "document"
      [] name = "Content" -> "content"
      [] name = "Field" -> "field"
      [] name = "String" -> "string"
      [] OTHER -> name

StructuralWords == {"document", "content", "field", "return", "struct"}

RECURSIVE ConcatAll(_, _)
ConcatAll(seqs, n) == IF n = 0 THEN <<>> ELSE ConcatAll(seqs, n - 1) \o seqs[n]

\* The fieldRegex loop. A `Name: description` line matches up to its end when
\* it is the last line or the next line starts a new `Name:`.
LabelPass(lines) ==
    ConcatAll([i \in 1..Len(lines) |->
        IF /\ lines[i].k = "kv"
           /\ (i = Len(lines) \/ lines[i + 1].k = "kv")
           /\ LowerCase(lines[i].name) \notin StructuralWords
        THEN << JObj(<< <<"field", JStr(lines[i].name)>>,
                        <<"type", JStr(IF lines[i].typeWord = "" THEN "string"
                                       ELSE lines[i].typeWord)>>,
                        <<"description", JStr(lines[i].desc)>> >>) >>
        ELSE <<>>], Len(lines))

\* The line-by-line loop: `name: description` with an identifier as name.
LinePass(lines) ==
    ConcatAll([i \in 1..Len(lines) |->
        IF lines[i].k = "kv"
        THEN << JObj(<< <<"field", JStr(lines[i].name)>>,
                        <<"description", JStr(lines[i].desc)>> >>) >>
        ELSE <<>>], Len(lines))

\* text.match(/\b[A-Z][a-z]+(?:[A-Z][a-z]+)*\b/g)
CapitalizedPass(lines) ==
    ConcatAll([i \in 1..Len(lines) |->
        IF lines[i].k = "raw"
        THEN [j \in 1..Len(lines[i].caps) |->
                 JObj(<< <<"field", JStr(lines[i].caps[j])>>,
                         <<"description", JStr("Extracted from text (no explicit description)")>> >>)]
        ELSE <<>>], Len(lines))

\* extractFieldsFromText(text): { fields, raw: text }
ExtractFieldsFromText(text) ==
    LET lines == Texts[text].lines
        a == LabelPass(lines)
        b == IF Len(a) = 0 THEN LinePass(lines) ELSE a
        c == IF Len(b) = 0 THEN CapitalizedPass(lines) ELSE b
    IN  JObj(<< <<"fields", JArr(c)>>, <<"raw", JStr(text)>> >>)

\* What ollama.generate gives: no answer (the call throws), or a text;
\* the text "undefined" is an answer that carries no response text.
NoAnswer == [ok |-> FALSE, text |-> ""]
Answer(text) == [ok |-> TRUE, text |-> text]

\* parseMixedContent(content), the generation service answering gen.
\* A text that holds a JSON payload parses to it; a text that holds none goes
\* to extractFieldsFromText; a missing text throws inside the try block and
\* the catch extracts from the content.
ParseMixedContent(content, gen) ==
    IF ~gen.ok
    THEN [err |-> "ServiceError", structure |-> JUndef, log |-> <<"generate">>]
    ELSE [err |-> "none",
          structure |-> IF gen.text = "undefined" THEN ExtractFieldsFromText(content)
                        ELSE IF Texts[gen.text].json # NotJSON THEN Texts[gen.text].json
                        ELSE ExtractFieldsFromText(gen.text),
          log |-> <<"generate">>]

\* parseDataFile(filePath): { filename, path, structure, content }
ParseDataFile(filePath, gen) ==
    LET f == Files[filePath]
        direct == f.ext = ".json" /\ Texts[f.content].json # NotJSON
        mixed == ParseMixedContent(f.content, gen)
    IN  IF ~f.exists
        THEN [err |-> "ENOENT", log |-> <<"readFile">>, ds |-> JUndef]
        ELSE IF direct
        THEN [err |-> "none", log |-> <<"readFile">>,
              ds |-> [filename |-> f.filename, path |-> filePath,
                      structure |-> Texts[f.content].json, content |-> f.content]]
        ELSE [err |-> mixed.err, log |-> <<"readFile">> \o mixed.log,
              ds |-> [filename |-> f.filename, path |-> filePath,
                      structure |-> mixed.structure, content |-> f.content]]

\* Whether parseDataFile(filePath) calls the generation service.
NeedsGeneration(filePath) ==
    LET f == Files[filePath]
    IN  f.exists /\ ~(f.ext = ".json" /\ Texts[f.content].json # NotJSON)

---------------------------------------------------------------------------
(* DataMapper: the schema walkers. Each yields the pairs pushed to           *)
(* fieldsToEmbed (field) and fieldDescriptions (text), in order.             *)

RECURSIVE ExtractFieldsFromSchema(_, _), SchemaEntriesFrom(_, _, _)

\* A faulty name: the key alone, the prefix dropped.
KeyAlone(prefix, key) == key

\* prefix ? `${prefix}.${key}` : key
FieldName(prefix, key) == IF prefix = "" THEN key ELSE prefix \o "." \o key

SchemaEntry(key, value, prefix) ==
    LET fieldName == FieldName(prefix, key)
    IN  IF IsObject(value)
        THEN IF Truthy(Get(value, "type"))
             THEN << [field |-> fieldName,
                      text |-> fieldName \o ": "
                               \o (IF Truthy(Get(value, "description"))
                                   THEN ToStr(Get(value, "description")) ELSE "")
                               \o " (" \o ToStr(Get(value, "type")) \o ")"] >>
             ELSE IF value.t = "arr"
             THEN << [field |-> fieldName, text |-> fieldName \o ": Array of items"] >>
                  \o (IF Len(value.items) > 0 /\ value.items[1].t \in {"obj", "arr", "null"}
                      THEN ExtractFieldsFromSchema(value.items[1], fieldName \o "[0]")
                      ELSE <<>>)
             ELSE ExtractFieldsFromSchema(value, fieldName)
        ELSE << [field |-> fieldName, text |-> fieldName \o ": " \o ToStr(value)] >>

SchemaEntriesFrom(entries, prefix, i) ==
    IF i > Len(entries) THEN <<>>
    ELSE SchemaEntry(entries[i][1], entries[i][2], prefix)
         \o SchemaEntriesFrom(entries, prefix, i + 1)

\* extractFieldsFromSchema(schema, prefix, fieldsToEmbed, fieldDescriptions)
ExtractFieldsFromSchema(schema, prefix) ==
    IF ~IsObject(schema) THEN <<>> ELSE SchemaEntriesFrom(Entries(schema), prefix, 1)

RECURSIVE ExtractFieldsFromObject(_, _), ObjectEntriesFrom(_, _, _)

ObjectEntry(key, value, prefix) ==
    LET fieldName == FieldName(prefix, key)
    IN  IF value.t = "obj"
        THEN ExtractFieldsFromObject(value, fieldName)
        ELSE << [field |-> fieldName,
                 text |-> fieldName \o ": "
                          \o (IF value.t = "arr" THEN "Array" ELSE ToStr(value))] >>

ObjectEntriesFrom(entries, prefix, i) ==
    IF i > Len(entries) THEN <<>>
    ELSE ObjectEntry(entries[i][1], entries[i][2], prefix)
         \o ObjectEntriesFrom(entries, prefix, i + 1)

\* extractFieldsFromObject(obj, prefix, fieldsToEmbed, fieldDescriptions)
ExtractFieldsFromObject(obj, prefix) ==
    IF ~IsObject(obj) THEN <<>> ELSE ObjectEntriesFrom(Entries(obj), prefix, 1)

\* structure.fields.forEach(...): the flat field list
FieldListEntry(field) ==
    IF Truthy(Get(field, "field"))
    THEN << [field |-> ToStr(Get(field, "field")),
             text |-> ToStr(Get(field, "field")) \o ": "
                      \o (IF Truthy(Get(field, "description"))
                          THEN ToStr(Get(field, "description")) ELSE "")
                      \o (IF Truthy(Get(field, "type"))
                          THEN " (" \o ToStr(Get(field, "type")) \o ")" ELSE "")] >>
    ELSE <<>>

\* The text fallback: contentFields.fields.forEach(...)
ContentFieldEntry(field) ==
    IF Truthy(Get(field, "field"))
    THEN << [field |-> ToStr(Get(field, "field")),
             text |-> ToStr(Get(field, "field")) \o ": " \o ToStr(Get(field, "description"))] >>
    ELSE <<>>

\* A faulty choice: the fields of the raw content, whatever the structure holds.
FieldsOfContent(ds) ==
    LET contentFields == Get(ExtractFieldsFromText(ds.content), "fields").items
    IN  [err |-> "none",
         fields |-> ConcatAll([i \in 1..Len(contentFields) |->
                                  ContentFieldEntry(contentFields[i])],
                              Len(contentFields))]

\* embedDataStructure, up to the embedding: the fields of the structure, by
\* the first of schema, field list and raw object that the structure has,
\* and the fields of the raw content when that gave none. A field list that
\* is no array, or holds null, throws a TypeError.
FieldsToEmbed(ds) ==
    LET st == ds.structure
        schema == Get(st, "schema")
        fields == Get(st, "fields")
        throws == /\ Truthy(st) /\ ~Truthy(schema) /\ Truthy(fields)
                  /\ \/ fields.t # "arr"
                     \/ \E i \in 1..Len(fields.items) : fields.items[i].t \in {"null", "undef"}
        fromStructure ==
            IF ~Truthy(st) THEN <<>>
            ELSE IF Truthy(schema) THEN ExtractFieldsFromSchema(schema, "")
            ELSE IF Truthy(fields)
            THEN ConcatAll([i \in 1..Len(fields.items) |-> FieldListEntry(fields.items[i])],
                           Len(fields.items))
            ELSE ExtractFieldsFromObject(st, "")
        contentFields == Get(ExtractFieldsFromText(ds.content), "fields").items
        fromContent ==
            ConcatAll([i \in 1..Len(contentFields) |-> ContentFieldEntry(contentFields[i])],
                      Len(contentFields))
    IN  IF throws THEN [err |-> "TypeError", fields |-> <<>>]
        ELSE [err |-> "none",
              fields |-> IF Len(fromStructure) = 0 THEN fromContent ELSE fromStructure]

---------------------------------------------------------------------------
(* NomicEmbedder, call by call *)

\* What one request to the embedding service gives: one of vecs, or a failure.
EmbedAnswers(vecs) == {[ok |-> TRUE, v |-> v] : v \in vecs} \cup {[ok |-> FALSE, v |-> <<>>]}

\* embedText(text), the service answering r
EmbedText(text, r) ==
    IF text = "" THEN [err |-> "InvalidInput", v |-> <<>>, log |-> <<>>]
    ELSE IF ~r.ok THEN [err |-> "ServiceError", v |-> <<>>, log |-> <<"embedding">>]
    ELSE [err |-> "none", v |-> r.v, log |-> <<"embedding">>]

RECURSIVE EmbedChunksFrom(_, _, _, _, _, _)
\* The loop of embedBatch from index i: every text of a chunk is requested,
\* the chunk's vectors are pushed in the order of its texts, and a chunk with
\* a failed request ends the call.
EmbedChunksFrom(texts, answers, batchSize, i, embeddings, log) ==
    IF i >= Len(texts)
    THEN [err |-> "none", embeddings |-> embeddings, log |-> log]
    ELSE LET hi == Min(i + batchSize, Len(texts))
             batchResults == [j \in 1..(hi - i) |-> EmbedText(texts[i + j], answers[i + j])]
             sent == ConcatAll([j \in 1..(hi - i) |-> batchResults[j].log], hi - i)
         IN  IF \E j \in 1..(hi - i) : batchResults[j].err = "InvalidInput"
             THEN [err |-> "InvalidInput", embeddings |-> <<>>, log |-> log \o sent]
             ELSE IF \E j \in 1..(hi - i) : batchResults[j].err # "none"
             THEN [err |-> "ServiceError", embeddings |-> <<>>, log |-> log \o sent]
             ELSE EmbedChunksFrom(texts, answers, batchSize, hi,
                                  embeddings \o [j \in 1..(hi - i) |-> batchResults[j].v],
                                  log \o sent)

\* embedBatch(texts, batchSize), the service answering answers[i] for texts[i]
EmbedBatch(texts, answers, batchSize) ==
    IF Len(texts) = 0
    THEN [err |-> "InvalidInput", embeddings |-> <<>>, log |-> <<>>]
    ELSE EmbedChunksFrom(texts, answers, batchSize, 0, <<>>, <<>>)

---------------------------------------------------------------------------
(* DataMapper: embedding a structure into the store *)

DocumentRecord(embedded) ==
    [vector |-> embedded.embeddings.fullContent,
     metadata |-> [type |-> "document", filename |-> embedded.filename,
                   path |-> embedded.path]]

FieldRecord(embedded, field) ==
    [vector |-> field.vector,
     metadata |-> [type |-> "field", field |-> field.field,
                   filename |-> embedded.filename, path |-> embedded.path]]

\* A faulty push order: the fields, then the document.
StructureRecordsFieldsFirst(embedded) ==
    [i \in 1..Len(embedded.embeddings.fields) |->
        FieldRecord(embedded, embedded.embeddings.fields[i])]
    \o <<DocumentRecord(embedded)>>

\* The records one embedded structure contributes: its document, then its fields.
StructureRecords(embedded) ==
    <<DocumentRecord(embedded)>>
    \o [i \in 1..Len(embedded.embeddings.fields) |->
           FieldRecord(embedded, embedded.embeddings.fields[i])]

\* A faulty store: unshift instead of push, which moves the records it holds.
PushAllFirst(store, records) == records \o store

\* this.vectorStore.push(...), once per record
PushAll(store, records) == store \o records

\* const embeddedStructure = { ...dataStructure, embeddings: { fields, fullContent } }
EmbeddedStructure(ds, fieldsToEmbed, embeddings) ==
    ds @@ [embeddings |->
             [fields |-> [i \in 1..Len(fieldsToEmbed) |->
                            [field |-> fieldsToEmbed[i], vector |-> embeddings[i]]],
              fullContent |-> embeddings[Len(embeddings)]]]

\* The end of embedDataStructure: the pushes and the return.
PushEmbedded(store, embeddedStructure, log) ==
    [err |-> "none",
     store |-> PushAll(store, StructureRecords(embeddedStructure)),
     embedded |-> embeddedStructure,
     log |-> log \o [i \in 1..(Len(embeddedStructure.embeddings.fields) + 1) |-> "push"]]

\* A faulty embedding: the document record is pushed before the embeddings
\* are awaited, and stays when they fail.
EmbedFieldsPushedFirst(store, ds, fieldsToEmbed, embedded) ==
    IF embedded.err # "none"
    THEN [err |-> embedded.err,
          store |-> PushAll(store, <<[vector |-> <<>>,
                                      metadata |-> [type |-> "document",
                                                    filename |-> ds.filename,
                                                    path |-> ds.path]]>>),
          embedded |-> JUndef, log |-> embedded.log]
    ELSE PushEmbedded(store, EmbeddedStructure(ds, fieldsToEmbed, embedded.embeddings),
                      embedded.log)

\* embedDataStructure from `await this.embedder.embedBatch(fieldDescriptions)`,
\* which gave `embedded`
EmbedFields(store, ds, fieldsToEmbed, embedded) ==
    IF embedded.err # "none"
    THEN [err |-> embedded.err, store |-> store, embedded |-> JUndef,
          log |-> embedded.log]
    ELSE PushEmbedded(store, EmbeddedStructure(ds, fieldsToEmbed, embedded.embeddings),
                      embedded.log)

\* embedDataStructure after the fields to embed were found: the names, the
\* descriptions with the content pushed last, and their embedding
EmbedFound(store, ds, answers, found) ==
    IF found.err # "none"
    THEN [err |-> found.err, store |-> store, embedded |-> JUndef, log |-> <<>>]
    ELSE EmbedFields(store, ds,
                     [i \in 1..Len(found.fields) |-> found.fields[i].field],
                     EmbedBatch([i \in 1..Len(found.fields) |-> found.fields[i].text]
                                \o <<ds.content>>, answers, DefaultBatchSize))

\* embedDataStructure(dataStructure) on a mapper whose store is `store`, the
\* embedding service answering answers[i] to the i-th text.
EmbedDataStructure(store, ds, answers) ==
    EmbedFound(store, ds, answers, FieldsToEmbed(ds))

\* The number of texts embedDataStructure(ds) hands to embedBatch.
TextCount(ds) == Len(FieldsToEmbed(ds).fields) + 1

---------------------------------------------------------------------------
(* DataMapper: retrieval from the store *)

OfType(store, type) == SelectSeq(store, LAMBDA item : item.metadata.type = type)

RECURSIVE DistinctPaths(_, _)
\* Object.entries(fieldsByDocument): the paths of the first n results, each once,
\* in the order of their first result
DistinctPaths(results, n) ==
    IF n = 0 THEN <<>>
    ELSE LET before == DistinctPaths(results, n - 1)
             p == results[n].metadata.path
         IN  IF \E i \in 1..Len(before) : before[i] = p THEN before ELSE before \o <<p>>

\* path.basename(docPath), over the paths of the files above
Basename(p) == Files[p].filename

\* A faulty filter: the document query is given the whole store.
DocumentsUnfiltered(store, type) ==
    IF type = "document" THEN store ELSE OfType(store, type)

\* this.vectorStore.filter(item => item.metadata.type === type)
FilterKind(store, type) == OfType(store, type)

\* A faulty query: the top k of the whole store, of which the kind is kept.
RankThenFilter(queryVector, store, type, k) ==
    LET ranked == FindSimilarVectors(queryVector, store, k)
    IN  [ok |-> ranked.ok,
         results |-> SelectSeq(ranked.results, LAMBDA r : r.metadata.type = type)]

\* findSimilarVectors(queryEmbedding, this.vectorStore.filter(...), k)
QueryKind(queryVector, store, type, k) ==
    FindSimilarVectors(queryVector, FilterKind(store, type), k)

\* A faulty check: the flag is never found unset.
AlwaysInitialized(init) == FALSE

\* if (!this.initialized) throw, of mapDataStructures and analyzeWithVectorDB
Uninitialized(init) == ~init

\* A faulty check: the flag alone, an empty store passing.
OnlyUninitialized(init, store) == ~init

\* if (!this.initialized || this.vectorStore.length === 0) throw
StoreNotReady(init, store) == ~init \/ Len(store) = 0

\* extractKnowledgeFromVectorDB(query, topK) on a mapper in the state
\* (store, init), the outside world behaving as o.
ExtractKnowledge(store, init, query, topK, o) ==
    LET queryEmbedding == EmbedText(query, o.q)
        similarDocuments == QueryKind(queryEmbedding.v, store, "document", topK)
        similarFields == QueryKind(queryEmbedding.v, store, "field", topK * 2)
        docs == similarDocuments.results
        flds == similarFields.results
        validDocuments ==
            SelectSeq([i \in 1..Len(docs) |->
                          [filename |-> docs[i].metadata.filename,
                           path |-> docs[i].metadata.path,
                           similarity |-> docs[i].similarity]],
                      LAMBDA d : d.path # o.lost)
        groups == DistinctPaths(flds, Len(flds))
        validGroups == SelectSeq(groups, LAMBDA p : p # o.lost)
        fields ==
            ConcatAll([g \in 1..Len(validGroups) |->
                LET mine == SelectSeq(flds, LAMBDA r : r.metadata.path = validGroups[g])
                IN  [i \in 1..Len(mine) |->
                        [document |-> Basename(validGroups[g]),
                         field |-> mine[i].metadata.field]]], Len(validGroups))
        reads == [i \in 1..(Len(docs) + Len(groups)) |-> "readFile"]
        synthesis == IF o.synth.ok THEN o.synth.text ELSE ""
        \* parseMixedContent(synthesis): with no text in either answer, the
        \* catch block's extractFieldsFromText(undefined) throws
        reparse ==
            IF ~o.parse.ok THEN "ServiceError"
            ELSE IF o.parse.text = "undefined" /\ synthesis = "undefined" THEN "TypeError"
            ELSE "none"
        none == [err |-> "none", log |-> <<>>, retrieved |-> FALSE,
                 similarDocuments |-> <<>>, similarFields |-> <<>>,
                 documents |-> <<>>, fields |-> <<>>, knowledgeSynthesis |-> ""]
    IN  IF StoreNotReady(init, store)
        THEN [none EXCEPT !.err = "NotInitialized"]
        ELSE IF queryEmbedding.err # "none"
        THEN [none EXCEPT !.err = queryEmbedding.err, !.log = queryEmbedding.log]
        ELSE IF ~similarDocuments.ok \/ ~similarFields.ok
        THEN [none EXCEPT !.err = "DimensionMismatch", !.log = queryEmbedding.log]
        ELSE LET found == [none EXCEPT !.retrieved = TRUE, !.log = queryEmbedding.log,
                                       !.similarDocuments = docs, !.similarFields = flds]
             IN  IF Len(docs) = 0 /\ Len(flds) = 0
                 THEN [found EXCEPT !.knowledgeSynthesis = "undefined"]
                 ELSE IF ~o.synth.ok
                 THEN [found EXCEPT !.err = "ServiceError",
                                    !.log = @ \o reads \o <<"generate">>]
                 ELSE IF reparse # "none"
                 THEN [found EXCEPT !.err = reparse,
                                    !.log = @ \o reads \o <<"generate", "generate">>]
                 ELSE [found EXCEPT !.log = @ \o reads \o <<"generate", "generate">>,
                                    !.documents = validDocuments, !.fields = fields,
                                    !.knowledgeSynthesis = synthesis]

---------------------------------------------------------------------------
(* The mapper and its callers *)

NoCall == [op |-> "none"]

\* embedBatch at rest. Of a call the model keeps the texts and the batch size,
\* the loop index, the embeddings pushed so far, the promises of the current
\* chunk, the indices of the texts in the order their requests completed, and
\* what the service answered for each text.
NoBatch == [phase |-> "none", err |-> "none", argument |-> "none",
            texts |-> <<>>, batchSize |-> 0, i |-> 0,
            embeddings |-> <<>>, results |-> <<>>, order |-> <<>>, answered |-> <<>>]

\* new DataMapper(config)
Init ==
    /\ vectorStore = <<>>
    /\ initialized = FALSE
    /\ pc = "idle"
    /\ call = NoCall
    /\ last = [op |-> "constructor"]
    /\ batch = NoBatch

\* The callers and the outside world of a specification are a record e:
\*   paths, sources, targets  the paths given to embedDataStructure's parse
\*                            and to mapDataStructures
\*   lists                    the path lists given to loadDataFiles
\*   queries, topKs           the arguments of the retrieval calls
\*   vecs                     the vectors the embedding service answers
\*   gens, synths, parses     the answers of the generation service to a
\*                            parsing, code or analysis prompt, to a synthesis
\*                            prompt, and to the parsing of a synthesis
\*   losts                    the paths that may have become unreadable
\*   cap                      the store size the calls stay within

\* The answers the generation service may give while filePath is parsed
\* (one, unused, when parseDataFile(filePath) never asks).
GenChoices(filePath, e) == IF NeedsGeneration(filePath) THEN e.gens ELSE {NoAnswer}

\* The most records embedDataStructure can push for filePath.
RecordsOf(filePath, e) ==
    LET sizes == {TextCount(ParseDataFile(filePath, g).ds) :
                     g \in {h \in GenChoices(filePath, e) :
                               ParseDataFile(filePath, h).err = "none"}}
    IN  IF sizes = {} THEN 0 ELSE CHOOSE n \in sizes : \A m \in sizes : m <= n

RECURSIVE RecordsOfAll(_, _, _)
RecordsOfAll(filePaths, n, e) ==
    IF n = 0 THEN 0 ELSE RecordsOf(filePaths[n], e) + RecordsOfAll(filePaths, n - 1, e)

\* What the services and the file system do during one
\* extractKnowledgeFromVectorDB call: the answer to the query's embedding, the
\* path that can no longer be read ("none": every read succeeds), the answers
\* to the synthesis prompt and to the parsing prompt. The fields a call does
\* not come to use are fixed.
ExtractOracles(e) ==
    {[q |-> q, lost |-> "none", synth |-> NoAnswer, parse |-> NoAnswer] :
         q \in {a \in EmbedAnswers(e.vecs) : ~a.ok}}
    \cup {[q |-> q, lost |-> l, synth |-> g, parse |-> NoAnswer] :
             q \in {a \in EmbedAnswers(e.vecs) : a.ok}, l \in {"none"},
             g \in {a \in e.synths : ~a.ok}}
    \cup {[q |-> q, lost |-> l, synth |-> g, parse |-> h] :
             q \in {a \in EmbedAnswers(e.vecs) : a.ok}, l \in e.losts \cup {"none"},
             g \in {a \in e.synths : a.ok}, h \in e.parses}

Return(result) ==
    /\ last' = result
    /\ pc' = "idle"
    /\ call' = NoCall

\* A direct call of embedDataStructure(dataStructure), on a structure that
\* parseDataFile returned. Of the service's answers the outcome keeps those
\* of a call that returned.
EmbedDataStructureCall(e) ==
    /\ pc = "idle"
    /\ \E p \in e.paths : \E gen \in GenChoices(p, e) :
         \E parsed \in {ParseDataFile(p, gen)} :
             /\ parsed.err = "none"
             /\ Len(vectorStore) + TextCount(parsed.ds) <= e.cap
             /\ \E answers \in [1..TextCount(parsed.ds) -> EmbedAnswers(e.vecs)] :
                  \E r \in {EmbedDataStructure(vectorStore, parsed.ds, answers)} :
                      /\ vectorStore' = r.store
                      /\ Return([op |-> "embedDataStructure", path |-> p,
                                 before |-> Len(vectorStore), err |-> r.err,
                                 log |-> r.log, embedded |-> r.embedded,
                                 answers |-> IF r.err = "none" THEN answers ELSE <<>>])
    /\ UNCHANGED <<initialized, batch>>

\* loadDataFiles(filePaths) is called.
LoadStart(e) ==
    /\ pc = "idle"
    /\ \E filePaths \in e.lists :
         /\ Len(vectorStore) + RecordsOfAll(filePaths, Len(filePaths), e) <= e.cap
         /\ call' = [op |-> "loadDataFiles", filePaths |-> filePaths, i |-> 1,
                     structures |-> <<>>, skipped |-> <<>>, log |-> <<>>,
                     before |-> Len(vectorStore)]
    /\ pc' = "load"
    /\ UNCHANGED <<vectorStore, initialized, last, batch>>

\* One turn of the loop of loadDataFiles: parseDataFile and embedDataStructure
\* on the next path; an error of either is logged and the path skipped.
LoadFile(e) ==
    /\ pc = "load"
    /\ call.i <= Len(call.filePaths)
    /\ LET p == call.filePaths[call.i]
       IN  \E gen \in GenChoices(p, e) :
             \E parsed \in {ParseDataFile(p, gen)} :
                 IF parsed.err # "none"
                 THEN /\ call' = [call EXCEPT !.i = @ + 1, !.skipped = Append(@, p),
                                              !.log = @ \o parsed.log]
                      /\ UNCHANGED vectorStore
                 ELSE \E answers \in [1..TextCount(parsed.ds) -> EmbedAnswers(e.vecs)] :
                        \E r \in {EmbedDataStructure(vectorStore, parsed.ds, answers)} :
                            /\ vectorStore' = r.store
                            /\ call' = IF r.err # "none"
                                       THEN [call EXCEPT !.i = @ + 1,
                                                         !.skipped = Append(@, p),
                                                         !.log = @ \o parsed.log \o r.log]
                                       ELSE [call EXCEPT !.i = @ + 1,
                                                         !.structures = Append(@, r.embedded),
                                                         !.log = @ \o parsed.log \o r.log]
    /\ UNCHANGED <<initialized, pc, last, batch>>

\* A faulty end: the flag tells whether a structure was loaded.
LoadReturnLoaded ==
    /\ pc = "load"
    /\ call.i > Len(call.filePaths)
    /\ initialized' = (Len(call.structures) > 0)
    /\ Return([op |-> "loadDataFiles", filePaths |-> call.filePaths, err |-> "none",
               structures |-> call.structures, skipped |-> call.skipped,
               log |-> call.log, before |-> call.before])
    /\ UNCHANGED <<vectorStore, batch>>

\* The end of loadDataFiles: this.initialized = true; return structures
LoadReturn ==
    /\ pc = "load"
    /\ call.i > Len(call.filePaths)
    /\ initialized' = TRUE
    /\ Return([op |-> "loadDataFiles", filePaths |-> call.filePaths, err |-> "none",
               structures |-> call.structures, skipped |-> call.skipped,
               log |-> call.log, before |-> call.before])
    /\ UNCHANGED <<vectorStore, batch>>

\* A direct call of extractKnowledgeFromVectorDB(query, topK)
ExtractKnowledgeCall(e) ==
    /\ pc = "idle"
    /\ \E query \in e.queries, topK \in e.topKs, o \in ExtractOracles(e) :
         Return([op |-> "extractKnowledgeFromVectorDB", query |-> query, topK |-> topK]
                @@ ExtractKnowledge(vectorStore, initialized, query, topK, o))
    /\ UNCHANGED <<vectorStore, initialized, batch>>

\* let sourceEnrichment = null
NoEnrichment == [performed |-> FALSE, documents |-> 0, fields |-> 0,
                 knowledgeSynthesis |-> ""]

\* What mapDataStructures goes on to use of an enrichment: the sizes of its
\* lists (logged) and its synthesis text (put in the prompt).
Enrichment(knowledge) ==
    [performed |-> TRUE, documents |-> Len(knowledge.documents),
     fields |-> Len(knowledge.fields),
     knowledgeSynthesis |-> knowledge.knowledgeSynthesis]

\* analyzeWithVectorDB(query)
AnalyzeWithVectorDB(e) ==
    /\ pc = "idle"
    /\ \E query \in e.queries, o \in ExtractOracles(e), analysis \in e.synths :
         \E knowledge \in {ExtractKnowledge(vectorStore, initialized, query, AnalyzeTopK, o)},
            done \in {[op |-> "analyzeWithVectorDB", query |-> query, err |-> "none",
                       log |-> <<>>, vectorKnowledge |-> NoEnrichment, analysis |-> ""]} :
             IF Uninitialized(initialized)
             THEN Return([done EXCEPT !.err = "NotInitialized"])
             ELSE IF knowledge.err # "none"
             THEN Return([done EXCEPT !.err = knowledge.err, !.log = knowledge.log])
             ELSE IF ~analysis.ok
             THEN Return([done EXCEPT !.err = "ServiceError",
                                      !.log = knowledge.log \o <<"generate">>])
             ELSE Return([done EXCEPT !.log = knowledge.log \o <<"generate">>,
                                      !.vectorKnowledge = Enrichment(knowledge),
                                      !.analysis = analysis.text])
    /\ UNCHANGED <<vectorStore, initialized, batch>>

---------------------------------------------------------------------------
(* mapDataStructures(sourcePath, targetPath), one step per awaited call *)

\* An exception leaves mapDataStructures.
Throw(err, log) ==
    Return([call EXCEPT !.err = err, !.log = @ \o log])

\* The entry of mapDataStructures, with its initialization check.
MapStart(e) ==
    /\ pc = "idle"
    /\ \E sourcePath \in e.sources, targetPath \in e.targets :
         \E frame \in {[op |-> "mapDataStructures", sourcePath |-> sourcePath,
                         targetPath |-> targetPath, err |-> "none", log |-> <<>>,
                         before |-> Len(vectorStore),
                         sourceStructure |-> JUndef, targetStructure |-> JUndef,
                         sourceEnrichment |-> NoEnrichment,
                         targetEnrichment |-> NoEnrichment,
                         sourceEmbedded |-> JUndef, targetEmbedded |-> JUndef,
                         fieldMappings |-> <<>>, mappingCode |-> ""]} :
             /\ Len(vectorStore) + RecordsOf(sourcePath, e) + RecordsOf(targetPath, e)
                    <= e.cap
             /\ IF Uninitialized(initialized)
                THEN Return([frame EXCEPT !.err = "NotInitialized"])
                ELSE /\ call' = frame
                     /\ pc' = "map:parseSource"
                     /\ UNCHANGED last
    /\ UNCHANGED <<vectorStore, initialized, batch>>

\* const sourceStructure = await this.parseDataFile(sourcePath)
MapParseSource(e) ==
    /\ pc = "map:parseSource"
    /\ \E gen \in GenChoices(call.sourcePath, e) :
         \E parsed \in {ParseDataFile(call.sourcePath, gen)} :
             IF parsed.err # "none"
             THEN Throw(parsed.err, parsed.log)
             ELSE /\ call' = [call EXCEPT !.sourceStructure = parsed.ds,
                                          !.log = @ \o parsed.log]
                  /\ pc' = "map:parseTarget"
                  /\ UNCHANGED last
    /\ UNCHANGED <<vectorStore, initialized, batch>>

\* const targetStructure = await this.parseDataFile(targetPath), and the test
\* this.vectorStore.length > 0
MapParseTarget(e) ==
    /\ pc = "map:parseTarget"
    /\ \E gen \in GenChoices(call.targetPath, e) :
         \E parsed \in {ParseDataFile(call.targetPath, gen)} :
             IF parsed.err # "none"
             THEN Throw(parsed.err, parsed.log)
             ELSE /\ call' = [call EXCEPT !.targetStructure = parsed.ds,
                                          !.log = @ \o parsed.log]
                  /\ pc' = IF Len(vectorStore) > 0 THEN "map:enrichSource"
                           ELSE "map:embedSource"
                  /\ UNCHANGED last
    /\ UNCHANGED <<vectorStore, initialized, batch>>

\* sourceStructure.content + ' ' + JSON.stringify(sourceStructure.structure):
\* never the empty string, which is all that the retrieval reads of it
EnrichmentQuery(ds) == ds.content \o " " \o ToStr(ds.structure)

\* sourceEnrichment = await this.extractKnowledgeFromVectorDB(..., 3)
MapEnrichSource(e) ==
    /\ pc = "map:enrichSource"
    /\ \E o \in ExtractOracles(e) :
         \E knowledge \in {ExtractKnowledge(vectorStore, initialized,
                                           EnrichmentQuery(call.sourceStructure),
                                           MapEnrichTopK, o)} :
             IF knowledge.err # "none"
             THEN Throw(knowledge.err, knowledge.log)
             ELSE /\ call' = [call EXCEPT !.sourceEnrichment = Enrichment(knowledge),
                                          !.log = @ \o knowledge.log]
                  /\ pc' = "map:enrichTarget"
                  /\ UNCHANGED last
    /\ UNCHANGED <<vectorStore, initialized, batch>>

\* targetEnrichment = await this.extractKnowledgeFromVectorDB(..., 3), and the
\* context built from both: substring throws on a synthesis that is undefined
MapEnrichTarget(e) ==
    /\ pc = "map:enrichTarget"
    /\ \E o \in ExtractOracles(e) :
         \E knowledge \in {ExtractKnowledge(vectorStore, initialized,
                                           EnrichmentQuery(call.targetStructure),
                                           MapEnrichTopK, o)} :
             IF knowledge.err # "none"
             THEN Throw(knowledge.err, knowledge.log)
             ELSE IF \/ call.sourceEnrichment.knowledgeSynthesis = "undefined"
                     \/ knowledge.knowledgeSynthesis = "undefined"
             THEN Return([call EXCEPT !.err = "TypeError", !.log = @ \o knowledge.log,
                                      !.targetEnrichment = Enrichment(knowledge)])
             ELSE /\ call' = [call EXCEPT !.targetEnrichment = Enrichment(knowledge),
                                          !.log = @ \o knowledge.log]
                  /\ pc' = "map:embedSource"
                  /\ UNCHANGED last
    /\ UNCHANGED <<vectorStore, initialized, batch>>

\* const sourceEmbedded = await this.embedDataStructure(sourceStructure)
MapEmbedSource(e) ==
    /\ pc = "map:embedSource"
    /\ \E answers \in [1..TextCount(call.sourceStructure) -> EmbedAnswers(e.vecs)] :
         \E r \in {EmbedDataStructure(vectorStore, call.sourceStructure, answers)} :
             /\ vectorStore' = r.store
             /\ IF r.err # "none"
                THEN Throw(r.err, r.log)
                ELSE /\ call' = [call EXCEPT !.sourceEmbedded = r.embedded,
                                             !.log = @ \o r.log]
                     /\ pc' = "map:embedTarget"
                     /\ UNCHANGED last
    /\ UNCHANGED <<initialized, batch>>

\* A faulty step: the target is embedded and its records are not pushed.
MapEmbedTargetUnstored(e) ==
    /\ pc = "map:embedTarget"
    /\ \E answers \in [1..TextCount(call.targetStructure) -> EmbedAnswers(e.vecs)] :
         \E r \in {EmbedDataStructure(vectorStore, call.targetStructure, answers)} :
             /\ vectorStore' = vectorStore
             /\ IF r.err # "none"
                THEN Throw(r.err, r.log)
                ELSE /\ call' = [call EXCEPT !.targetEmbedded = r.embedded,
                                             !.log = @ \o r.log]
                     /\ pc' = "map:mapFields"
                     /\ UNCHANGED last
    /\ UNCHANGED <<initialized, batch>>

\* const targetEmbedded = await this.embedDataStructure(targetStructure)
MapEmbedTarget(e) ==
    /\ pc = "map:embedTarget"
    /\ \E answers \in [1..TextCount(call.targetStructure) -> EmbedAnswers(e.vecs)] :
         \E r \in {EmbedDataStructure(vectorStore, call.targetStructure, answers)} :
             /\ vectorStore' = r.store
             /\ IF r.err # "none"
                THEN Throw(r.err, r.log)
                ELSE /\ call' = [call EXCEPT !.targetEmbedded = r.embedded,
                                             !.log = @ \o r.log]
                     /\ pc' = "map:mapFields"
                     /\ UNCHANGED last
    /\ UNCHANGED <<initialized, batch>>

\* targetEmbedded.embeddings.fields.map(field => ({ vector: field.vector,
\* metadata: field }))
TargetCandidates(targetEmbedded) ==
    [i \in 1..Len(targetEmbedded.embeddings.fields) |->
        [vector |-> targetEmbedded.embeddings.fields[i].vector,
         metadata |-> targetEmbedded.embeddings.fields[i]]]

\* The loop over sourceEmbedded.embeddings.fields, each field ranked against
\* the candidates and cut to k matches.
MappingsOver(sourceEmbedded, candidates, k) ==
    [i \in 1..Len(sourceEmbedded.embeddings.fields) |->
        LET sourceField == sourceEmbedded.embeddings.fields[i]
            similarTargets == FindSimilarVectors(sourceField.vector, candidates, k)
        IN  [ok |-> similarTargets.ok,
             sourceField |-> sourceField.field,
             targetMatches |->
                 [j \in 1..Len(similarTargets.results) |->
                     [targetField |-> similarTargets.results[j].metadata.field,
                      confidence |-> similarTargets.results[j].similarity]]]]

\* A faulty mapping loop: the candidates are the field records the store
\* holds for the target's path, those of earlier calls among them.
FieldMappingsFromStore(sourceEmbedded, targetEmbedded) ==
    MappingsOver(sourceEmbedded,
                 LET stored == SelectSeq(OfType(vectorStore, "field"),
                                 LAMBDA item : item.metadata.path = targetEmbedded.path)
                 IN  [i \in 1..Len(stored) |->
                         [vector |-> stored[i].vector,
                          metadata |-> [field |-> stored[i].metadata.field,
                                        vector |-> stored[i].vector]]],
                 TopMatches)

\* A faulty mapping loop: every target field is kept as a candidate.
FieldMappingsUntruncated(sourceEmbedded, targetEmbedded) ==
    MappingsOver(sourceEmbedded, TargetCandidates(targetEmbedded),
                 Len(targetEmbedded.embeddings.fields))

\* const mappings = [] and the loop that fills it
FieldMappings(sourceEmbedded, targetEmbedded) ==
    MappingsOver(sourceEmbedded, TargetCandidates(targetEmbedded), TopMatches)

\* A faulty description: a mapping without a match is described without one,
\* and returned.
MapFinishUnmatched(e) ==
    /\ pc = "map:mapFields"
    /\ \E mappings \in {FieldMappings(call.sourceEmbedded, call.targetEmbedded)} :
           IF \E i \in 1..Len(mappings) : ~mappings[i].ok
           THEN Throw("DimensionMismatch", <<>>)
           ELSE \E code \in e.gens :
                  IF ~code.ok
                  THEN Throw("ServiceError", <<"generate">>)
                  ELSE Return([call EXCEPT !.log = @ \o <<"generate">>,
                                           !.fieldMappings =
                                               [i \in 1..Len(mappings) |->
                                                   [sourceField |-> mappings[i].sourceField,
                                                    targetMatches |-> mappings[i].targetMatches]],
                                           !.mappingCode = code.text])
    /\ UNCHANGED <<vectorStore, initialized, batch>>

\* The mapping loop, the mapping description (which reads targetMatches[0] of
\* every mapping), the code generation and the return.
MapFinish(e) ==
    /\ pc = "map:mapFields"
    /\ \E mappings \in {FieldMappings(call.sourceEmbedded, call.targetEmbedded)} :
           IF \E i \in 1..Len(mappings) : ~mappings[i].ok
           THEN Throw("DimensionMismatch", <<>>)
           ELSE IF \E i \in 1..Len(mappings) : Len(mappings[i].targetMatches) = 0
           THEN Throw("TypeError", <<>>)
           ELSE \E code \in e.gens :
                  IF ~code.ok
                  THEN Throw("ServiceError", <<"generate">>)
                  ELSE Return([call EXCEPT !.log = @ \o <<"generate">>,
                                           !.fieldMappings =
                                               [i \in 1..Len(mappings) |->
                                                   [sourceField |-> mappings[i].sourceField,
                                                    targetMatches |-> mappings[i].targetMatches]],
                                           !.mappingCode = code.text])
    /\ UNCHANGED <<vectorStore, initialized, batch>>

---------------------------------------------------------------------------
(* index.js: the embedded structures saved by `load` and read back by `map` *)

\* What a structure keeps through JSON.stringify, fs.writeFile, fs.readFile and
\* JSON.parse, of the properties the reload reads: vectors are arrays of
\* finite numbers and names are strings, which the round trip returns as
\* they were.
Persisted(embedded) ==
    [filename |-> embedded.filename, path |-> embedded.path,
     embeddings |-> embedded.embeddings]

\* The structures loadDataFiles can have returned for the file p.
SavedFor(p, e) ==
    UNION {LET parsed == ParseDataFile(p, gen)
           IN  IF parsed.err # "none" THEN {}
               ELSE {Persisted(EmbedDataStructure(<<>>, parsed.ds, answers).embedded) :
                        answers \in {a \in [1..TextCount(parsed.ds) -> EmbedAnswers(e.vecs)] :
                                        EmbedDataStructure(<<>>, parsed.ds, a).err = "none"}}
           : gen \in GenChoices(p, e)}

RECURSIVE SavedForAll(_, _, _)
\* The contents embedded-structures.json can have after `load` processed the
\* first n of filePaths, none skipped.
SavedForAll(filePaths, n, e) ==
    IF n = 0 THEN {<<>>}
    ELSE {front \o <<st>> : front \in SavedForAll(filePaths, n - 1, e),
                            st \in SavedFor(filePaths[n], e)}

\* A faulty reload: the document record of each structure alone.
ReloadDocuments(structures) ==
    [i \in 1..Len(structures) |->
        [vector |-> structures[i].embeddings.fullContent,
         metadata |-> [type |-> "document", filename |-> structures[i].filename,
                       path |-> structures[i].path]]]

\* structures.flatMap(structure => [{document record}, ...field records])
ReloadRecords(structures) ==
    ConcatAll([i \in 1..Len(structures) |->
        <<[vector |-> structures[i].embeddings.fullContent,
           metadata |-> [type |-> "document", filename |-> structures[i].filename,
                         path |-> structures[i].path]]>>
        \o [j \in 1..Len(structures[i].embeddings.fields) |->
               [vector |-> structures[i].embeddings.fields[j].vector,
                metadata |-> [type |-> "field",
                              field |-> structures[i].embeddings.fields[j].field,
                              filename |-> structures[i].filename,
                              path |-> structures[i].path]]]],
        Len(structures))

\* The try block of the map command, run on the mapper that main() has just
\* constructed: loadDataFiles([]), then the store and the flag are assigned.
Reload(e) ==
    /\ pc = "idle"
    /\ last.op = "constructor"
    /\ \E filePaths \in e.saved :
         \E structures \in SavedForAll(filePaths, Len(filePaths), e) :
           /\ Len(ReloadRecords(structures)) <= e.cap
           /\ vectorStore' = ReloadRecords(structures)
           /\ last' = [op |-> "reload", structures |-> structures, err |-> "none",
                       before |-> Len(vectorStore)]
    /\ initialized' = TRUE
    /\ UNCHANGED <<pc, call, batch>>

---------------------------------------------------------------------------
(* The specifications *)

\* The whole life of one mapper: every operation, over files of every parsing
\* route and an embedding service that answers in two dimensions.
Life ==
    [paths   |-> {"d/null.json", "d/person.json", "d/notes.txt", "d/empty.json"},
     lists   |-> {<<>>, <<"d/person.json">>, <<"d/missing.json", "d/null.json">>},
     saved   |-> {<<"d/person.json">>, <<"d/null.json", "d/notes.txt">>},
     sources |-> {"d/person.json", "d/missing.json"},
     targets |-> {"d/null.json", "d/person.json"},
     queries |-> {"customer email", ""},
     topKs   |-> {1},
     vecs    |-> {<<1, 0>>, <<1>>},
     gens    |-> {NoAnswer, Answer("answer"), Answer("N/A")},
     synths  |-> {NoAnswer, Answer("N/A")},
     parses  |-> {NoAnswer, Answer("N/A")},
     losts   |-> {},
     cap     |-> MaxStore]

Next ==
    \/ EmbedDataStructureCall(Life)
    \/ LoadStart(Life)
    \/ LoadFile(Life)
    \/ LoadReturn
    \/ ExtractKnowledgeCall(Life)
    \/ AnalyzeWithVectorDB(Life)
    \/ MapStart(Life)
    \/ MapParseSource(Life)
    \/ MapParseTarget(Life)
    \/ MapEnrichSource(Life)
    \/ MapEnrichTarget(Life)
    \/ MapEmbedSource(Life)
    \/ MapEmbedTarget(Life)
    \/ MapFinish(Life)
    \/ Reload(Life)

Spec == Init /\ [][Next]_vars

\* Retrieval over stores of several documents and fields, the service
\* answering vectors of one dimension, for every topK of -1..MaxTopK.
Query ==
    [Life EXCEPT
       !.lists   = {<<"d/person.json">>, <<"d/customer.json">>,
                    <<"d/customer.json", "d/person.json">>},
       !.queries = {"customer email"},
       !.topKs   = -1..MaxTopK,
       !.vecs    = {<<1, 0>>, <<0, 1>>},
       !.synths  = {Answer("N/A")},
       !.parses  = {Answer("N/A")},
       !.losts   = {"d/person.json"},
       !.cap     = MaxQueryStore]

NextQuery ==
    \/ LoadStart(Query)
    \/ LoadFile(Query)
    \/ LoadReturn
    \/ ExtractKnowledgeCall(Query)

SpecQuery == Init /\ [][NextQuery]_vars

\* Mappings between structures of one, two and four fields, on a store that
\* is empty or not, the service answering vectors of one dimension, a
\* component of one of them negative.
Map ==
    [Life EXCEPT
       !.lists   = {<<>>, <<"d/person.json">>},
       !.sources = {"d/person.json", "d/customer.json"},
       !.targets = {"d/person.json", "d/wide.json"},
       !.vecs    = {<<-1, 0>>, <<3, 4>>},
       !.gens    = {Answer("answer")},
       !.synths  = {Answer("N/A")},
       !.parses  = {Answer("N/A")},
       !.cap     = MaxMapStore]

NextMap ==
    \/ LoadStart(Map)
    \/ LoadFile(Map)
    \/ LoadReturn
    \/ MapStart(Map)
    \/ MapParseSource(Map)
    \/ MapParseTarget(Map)
    \/ MapEnrichSource(Map)
    \/ MapEnrichTarget(Map)
    \/ MapEmbedSource(Map)
    \/ MapEmbedTarget(Map)
    \/ MapFinish(Map)

SpecMap == Init /\ [][NextMap]_vars

---------------------------------------------------------------------------
(* NomicEmbedder.embedBatch, request by request *)

\* The arguments given to embedBatch: the lists of 0..MaxTexts elements, each
\* a text, the empty string or a number, then a string and undefined.
BatchArguments ==
    {JArr(texts) : texts \in UNION {[1..n -> {JStr("t"), JStr(""), JNum(7)}] :
                                        n \in 0..MaxTexts}}
    \cup {JStr("t"), JUndef}

\* A faulty check: typeof alone, the empty string passing.
NonStringText(text) == text.t # "str"

\* embedText: if (!text || typeof text !== 'string') throw
InvalidText(text) == ~Truthy(text) \/ text.t # "str"

\* embedBatch: if (!Array.isArray(texts) || texts.length === 0) throw
InvalidTexts(texts) == texts.t # "arr" \/ Len(texts.items) = 0

\* The promise of one embedText call of the chunk.
Pending == [state |-> "pending", v |-> <<>>]
Fulfilled(v) == [state |-> "fulfilled", v |-> v]
Rejected == [state |-> "rejected", v |-> <<>>]

\* No embedBatch call is running, and no request of an earlier call is in flight.
BatchIdle ==
    /\ batch.phase \in {"none", "returned", "thrown"}
    /\ \A j \in 1..Len(batch.results) : batch.results[j] # Pending

\* The requests in flight: the promises of the chunk that have not settled.
InFlight == {j \in 1..Len(batch.results) : batch.results[j] = Pending}

\* embedBatch(texts, batchSize) is called: the argument check, const embeddings = []
BatchStart ==
    /\ BatchIdle
    /\ \E texts \in BatchArguments, batchSize \in 1..MaxBatchSize :
         batch' = IF InvalidTexts(texts)
                  THEN [NoBatch EXCEPT !.phase = "thrown", !.err = "InvalidInput",
                                       !.argument = texts.t, !.batchSize = batchSize]
                  ELSE [NoBatch EXCEPT !.phase = "loop", !.argument = texts.t,
                                       !.texts = texts.items, !.batchSize = batchSize,
                                       !.answered = [k \in 1..Len(texts.items) |-> Pending]]
    /\ UNCHANGED <<vectorStore, initialized, pc, call, last>>

\* seq.slice(start, end): an index below 0 counts from the end of seq
Slice(seq, start, end) ==
    LET from == IF start < 0 THEN Max(Len(seq) + start, 0) ELSE Min(start, Len(seq))
        to == IF end < 0 THEN Max(Len(seq) + end, 0) ELSE Min(end, Len(seq))
    IN  SubSeq(seq, from + 1, to)

\* A faulty loop: no slice, the requests of all the texts left sent at once.
ChunkIssueAll ==
    /\ batch.phase = "loop"
    /\ batch.i < Len(batch.texts)
    /\ batch' = [batch EXCEPT
                   !.phase = "await",
                   !.results =
                       [j \in 1..(Len(batch.texts) - batch.i) |->
                           IF InvalidText(batch.texts[batch.i + j]) THEN Rejected
                           ELSE Pending]]
    /\ UNCHANGED <<vectorStore, initialized, pc, call, last>>

\* One turn of the loop up to its await: the slice and batch.map(text =>
\* this.embedText(text)), which sends the request of every valid text and
\* rejects the promise of every invalid one.
ChunkIssue ==
    /\ batch.phase = "loop"
    /\ batch.i < Len(batch.texts)
    /\ LET chunk == Slice(batch.texts, batch.i, batch.i + batch.batchSize)
       IN  batch' = [batch EXCEPT
                       !.phase = "await",
                       !.results = [j \in 1..Len(chunk) |->
                                       IF InvalidText(chunk[j]) THEN Rejected
                                       ELSE Pending]]
    /\ UNCHANGED <<vectorStore, initialized, pc, call, last>>

\* The service answers one request in flight, of the running call or of a
\* call that has thrown: embedText returns data.embedding or throws.
RequestCompletes ==
    /\ batch.phase \in {"await", "thrown"}
    /\ \E j \in InFlight, r \in EmbedAnswers({<<1>>, <<2>>}) :
         batch' = [batch EXCEPT
                     !.results[j] = IF r.ok THEN Fulfilled(r.v) ELSE Rejected,
                     !.order = Append(@, batch.i + j),
                     !.answered[batch.i + j] = IF r.ok THEN Fulfilled(r.v) ELSE Rejected]
    /\ UNCHANGED <<vectorStore, initialized, pc, call, last>>

\* await Promise.all(batchPromises) rejects when one promise is rejected, the
\* other requests still in flight; the rejection leaves embedBatch.
ChunkRejects ==
    /\ batch.phase = "await"
    /\ \E j \in 1..Len(batch.results) : batch.results[j] = Rejected
    /\ batch' = [batch EXCEPT
                   !.phase = "thrown",
                   !.err = IF \E j \in 1..Len(batch.results) :
                                  InvalidText(batch.texts[batch.i + j])
                           THEN "InvalidInput" ELSE "ServiceError"]
    /\ UNCHANGED <<vectorStore, initialized, pc, call, last>>

\* A faulty await: the values in the order the requests completed.
BatchResultsAsCompleted(b) ==
    [k \in 1..Len(b.results) |->
        b.results[b.order[Len(b.order) - Len(b.results) + k] - b.i].v]

\* const batchResults = await Promise.all(batchPromises): the values of the
\* promises, in the order of the promises
BatchResults(b) == [j \in 1..Len(b.results) |-> b.results[j].v]

\* A faulty await, in the way of Promise.allSettled: the loop goes on when
\* every promise has settled, with the values of those that were fulfilled.
ChunkPushSettled ==
    /\ batch.phase = "await"
    /\ \A j \in 1..Len(batch.results) : batch.results[j] # Pending
    /\ batch' = [batch EXCEPT
                   !.phase = "loop",
                   !.embeddings = @ \o BatchResults(
                       [batch EXCEPT !.results =
                           SelectSeq(batch.results, LAMBDA r : r.state = "fulfilled")]),
                   !.i = @ + batch.batchSize,
                   !.results = <<>>]
    /\ UNCHANGED <<vectorStore, initialized, pc, call, last>>

\* A faulty step: the index moves on by one text at least.
ChunkPushForward ==
    /\ batch.phase = "await"
    /\ \A j \in 1..Len(batch.results) : batch.results[j].state = "fulfilled"
    /\ batch' = [batch EXCEPT
                   !.phase = "loop",
                   !.embeddings = @ \o BatchResults(batch),
                   !.i = @ + Max(batch.batchSize, 1),
                   !.results = <<>>]
    /\ UNCHANGED <<vectorStore, initialized, pc, call, last>>

\* Promise.all is fulfilled; embeddings.push(...batchResults); i += batchSize.
\* The index of a loop that never ends is followed down to -MaxIdleTurns.
ChunkPush ==
    /\ batch.phase = "await"
    /\ \A j \in 1..Len(batch.results) : batch.results[j].state = "fulfilled"
    /\ batch.i + batch.batchSize >= -MaxIdleTurns
    /\ batch' = [batch EXCEPT
                   !.phase = "loop",
                   !.embeddings = @ \o BatchResults(batch),
                   !.i = @ + batch.batchSize,
                   !.results = <<>>]
    /\ UNCHANGED <<vectorStore, initialized, pc, call, last>>

\* The loop ends: return embeddings
BatchReturn ==
    /\ batch.phase = "loop"
    /\ batch.i >= Len(batch.texts)
    /\ batch' = [batch EXCEPT !.phase = "returned"]
    /\ UNCHANGED <<vectorStore, initialized, pc, call, last>>

NextBatch ==
    \/ BatchStart
    \/ ChunkIssue
    \/ RequestCompletes
    \/ ChunkRejects
    \/ ChunkPush
    \/ BatchReturn

SpecBatch == Init /\ [][NextBatch]_vars

\* embedBatch(texts, batchSize) is called, once, on a list of texts with a
\* batch size that is positive, zero or negative.
BatchStartAnySize ==
    /\ batch.phase = "none"
    /\ \E texts \in {t \in BatchArguments : ~InvalidTexts(t)},
          batchSize \in -MaxTexts..MaxBatchSize :
         batch' = [NoBatch EXCEPT !.phase = "loop", !.argument = texts.t,
                                  !.texts = texts.items, !.batchSize = batchSize,
                                  !.answered = [k \in 1..Len(texts.items) |-> Pending]]
    /\ UNCHANGED <<vectorStore, initialized, pc, call, last>>

NextBatchSizes ==
    \/ BatchStartAnySize
    \/ ChunkIssue
    \/ RequestCompletes
    \/ ChunkRejects
    \/ ChunkPush
    \/ BatchReturn

\* The calls of every batch size, every continuation of the loop run when it
\* can and every request answered in the end.
SpecBatchSizes ==
    /\ Init
    /\ [][NextBatchSizes]_vars
    /\ WF_vars(ChunkIssue)
    /\ WF_vars(RequestCompletes)
    /\ WF_vars(ChunkRejects)
    /\ WF_vars(ChunkPush)
    /\ WF_vars(BatchReturn)

---------------------------------------------------------------------------
(* DataMapper: the parser over the characters of a text.                   *)
(* A text is the sequence of its pieces: each maximal run of [A-Za-z0-9_]  *)
(* is one piece (a word), every other character is a piece of its own, and *)
(* the three backquotes that fence a block are the one piece Fence.        *)

Fence == "~~~"

\* [A-Za-z0-9_]+: a piece that is none of the other characters of the texts
IsWord(c) ==
    c \notin {":", " ", "\n", "{", "}", ",", "\"", Fence, "#", "-", "*", "/", "[", "]"}
\* \s
IsSpace(c) == c \in {" ", "\n"}
\* [\s:]
IsSeparator(c) == IsSpace(c) \/ c = ":"

\* Two runs of [A-Za-z0-9_] side by side are one run.
RECURSIVE Lex(_)
Lex(t) ==
    IF Len(t) < 2 THEN t
    ELSE IF IsWord(t[1]) /\ IsWord(t[2])
    THEN Lex(<<t[1] \o t[2]>> \o SubSeq(t, 3, Len(t)))
    ELSE <<t[1]>> \o Lex(Tail(t))

\* The string of a text.
RECURSIVE TextOf(_)
TextOf(t) == IF t = <<>> THEN "" ELSE Head(t) \o TextOf(Tail(t))

\* s.length
RECURSIVE CharLen(_)
CharLen(t) == IF t = <<>> THEN 0 ELSE Len(Head(t)) + CharLen(Tail(t))

\* s.trim()
Trim(t) ==
    LET keep == {i \in 1..Len(t) : ~IsSpace(t[i])}
    IN  IF keep = {} THEN <<>>
        ELSE SubSeq(t, CHOOSE i \in keep : \A j \in keep : i <= j,
                       CHOOSE i \in keep : \A j \in keep : i >= j)

\* s.indexOf(c, i), counted in pieces from 1; 0 when c is not in s from i on
IndexFrom(t, c, i) ==
    LET at == {j \in i..Len(t) : t[j] = c}
    IN  IF at = {} THEN 0 ELSE CHOOSE j \in at : \A k \in at : j <= k

\* s.split on line breaks
RECURSIVE SplitLines(_)
SplitLines(t) ==
    IF IndexFrom(t, "\n", 1) = 0 THEN <<t>>
    ELSE <<SubSeq(t, 1, IndexFrom(t, "\n", 1) - 1)>>
         \o SplitLines(SubSeq(t, IndexFrom(t, "\n", 1) + 1, Len(t)))

\* description.match(/\b(string|number|...|object)\b/i): the first type
\* word in lower case, "" when there is none
TypeMatch(description) ==
    LET at == {i \in 1..Len(description) :
                  LowerCase(description[i]) \in
                      {"string", "number", "integer", "int", "float", "double",
                       "boolean", "bool", "date", "datetime", "array", "object"}}
    IN  IF at = {} THEN ""
        ELSE LowerCase(description[CHOOSE i \in at : \A j \in at : i <= j])

\* (?=\n[A-Za-z0-9_]+[\s:]|$) at piece e
Lookahead(t, e) ==
    \/ e > Len(t)
    \/ /\ e + 2 <= Len(t)
       /\ t[e] = "\n"
       /\ IsWord(t[e + 1])
       /\ IsSeparator(t[e + 2])

\* (.*?) from piece e on: the first piece where the lookahead holds, no
\* line break passed; 0 when there is none
RECURSIVE LazyEnd(_, _)
LazyEnd(t, e) ==
    IF Lookahead(t, e) THEN e
    ELSE IF t[e] = "\n" THEN 0
    ELSE LazyEnd(t, e + 1)

\* [\s:]+ is greedy: the word at piece i with n separators, then with fewer.
RECURSIVE MatchWith(_, _, _)
MatchWith(t, i, n) ==
    IF n = 0 THEN [ok |-> FALSE, name |-> "", from |-> 0, end |-> 0]
    ELSE IF LazyEnd(t, i + n + 1) # 0
    THEN [ok |-> TRUE, name |-> t[i], from |-> i + n + 1, end |-> LazyEnd(t, i + n + 1)]
    ELSE MatchWith(t, i, n - 1)

\* fieldRegex.exec(text) with lastIndex at piece i: the leftmost match, of a
\* word and the separators that follow it
RECURSIVE FieldRegexExec(_, _)
FieldRegexExec(t, i) ==
    LET others == {j \in i + 1..Len(t) : ~IsSeparator(t[j])}
        stop == IF others = {} THEN Len(t) + 1
                ELSE CHOOSE j \in others : \A k \in others : j <= k
    IN  IF i > Len(t) THEN [ok |-> FALSE, name |-> "", from |-> 0, end |-> 0]
        ELSE IF IsWord(t[i]) /\ MatchWith(t, i, stop - i - 1).ok
        THEN MatchWith(t, i, stop - i - 1)
        ELSE FieldRegexExec(t, i + 1)

\* The body of the while loop for one match.
RegexField(name, description) ==
    IF LowerCase(name) \in StructuralWords THEN <<>>
    ELSE << JObj(<< <<"field", JStr(name)>>,
                    <<"type", JStr(IF TypeMatch(description) = "" THEN "string"
                                   ELSE TypeMatch(description))>>,
                    <<"description", JStr(TextOf(description))>> >>) >>

\* while ((match = fieldRegex.exec(text)) !== null) { ... }, lastIndex at piece i
RECURSIVE FieldRegexFrom(_, _)
FieldRegexFrom(t, i) ==
    LET match == FieldRegexExec(t, i)
    IN  IF ~match.ok THEN <<>>
        ELSE RegexField(match.name, Trim(SubSeq(t, match.from, match.end - 1)))
             \o FieldRegexFrom(t, match.end)

\* if (/^[A-Za-z0-9_]+$/.test(fieldName)) fields.push({ field, description })
LineField(fieldName, description) ==
    IF Len(fieldName) = 1 /\ IsWord(fieldName[1])
    THEN << JObj(<< <<"field", JStr(fieldName[1])>>,
                    <<"description", JStr(TextOf(description))>> >>) >>
    ELSE <<>>

\* The body of the loop over the lines, for the trimmed line: a colon, else
\* ' - ', else a bullet with a colon after it.
TrimmedLineFields(line) ==
    LET colonPattern == IndexFrom(line, ":", 1)
        dashes == {i \in 1..Len(line) - 2 :
                      line[i] = " " /\ line[i + 1] = "-" /\ line[i + 2] = " "}
        dashPattern == IF dashes = {} THEN 0
                       ELSE CHOOSE i \in dashes : \A j \in dashes : i <= j
        bulletContent == Trim(Tail(line))
        bulletColonPattern == IndexFrom(bulletContent, ":", 1)
    IN  IF CharLen(line) < 3 THEN <<>>
        ELSE IF \/ line[1] = "#"
                \/ line = <<"-", "-", "-">>
                \/ (Len(line) >= 2 /\ line[1] = "/" /\ line[2] = "/")
        THEN <<>>
        ELSE IF colonPattern > 1
        THEN LineField(Trim(SubSeq(line, 1, colonPattern - 1)),
                       Trim(SubSeq(line, colonPattern + 1, Len(line))))
        ELSE IF dashPattern > 1
        THEN LineField(Trim(SubSeq(line, 1, dashPattern - 1)),
                       Trim(SubSeq(line, dashPattern + 3, Len(line))))
        ELSE IF line[1] \in {"-", "*"} /\ bulletColonPattern > 1
        THEN LineField(Trim(SubSeq(bulletContent, 1, bulletColonPattern - 1)),
                       Trim(SubSeq(bulletContent, bulletColonPattern + 1,
                                   Len(bulletContent))))
        ELSE <<>>

\* for (const line of lines) { ... }
LineByLinePass(t) ==
    ConcatAll([i \in 1..Len(SplitLines(t)) |-> TrimmedLineFields(Trim(SplitLines(t)[i]))],
              Len(SplitLines(t)))

\* text.match(/\b[A-Z][a-z]+(?:[A-Z][a-z]+)*\b/g), each match a field; of
\* the words of the texts below the regex matches Email, Ann, Name, Content.
RECURSIVE PotentialFields(_)
PotentialFields(t) ==
    IF t = <<>> THEN <<>>
    ELSE (IF Head(t) \in {"Email", "Ann", "Name", "Content"}
          THEN << JObj(<< <<"field", JStr(Head(t))>>,
                          <<"description",
                            JStr("Extracted from text (no explicit description)")>> >>) >>
          ELSE <<>>) \o PotentialFields(Tail(t))

\* A faulty extraction: the three passes run whatever the others found.
ExtractFieldsFromAllPasses(t) ==
    JObj(<< <<"fields", JArr(FieldRegexFrom(t, 1) \o LineByLinePass(t)
                             \o PotentialFields(t))>>,
            <<"raw", JStr(TextOf(t))>> >>)

\* extractFieldsFromText(text), the text given piece by piece: the regex
\* pass, the line pass and the capitalized words, each run when the one
\* before it found no field.
ExtractFieldsFromPieces(t) ==
    LET a == FieldRegexFrom(t, 1)
        b == IF Len(a) = 0 THEN LineByLinePass(t) ELSE a
        c == IF Len(b) = 0 THEN PotentialFields(t) ELSE b
    IN  JObj(<< <<"fields", JArr(c)>>, <<"raw", JStr(TextOf(t))>> >>)

---------------------------------------------------------------------------
(* JSON.parse over the pieces of a text: objects, strings, the numbers of   *)
(* one digit and null. A text that is none of these is a SyntaxError.       *)

SyntaxError == [ok |-> FALSE, value |-> JUndef, next |-> 0]

\* The first piece from i on that is no white space.
RECURSIVE SkipSpace(_, _)
SkipSpace(t, i) == IF i <= Len(t) /\ IsSpace(t[i]) THEN SkipSpace(t, i + 1) ELSE i

\* object[key] = value: a key that is there keeps its place
PutMember(kv, key, value) ==
    IF \E n \in 1..Len(kv) : kv[n][1] = key
    THEN [n \in 1..Len(kv) |-> IF kv[n][1] = key THEN <<key, value>> ELSE kv[n]]
    ELSE Append(kv, <<key, value>>)

\* A string from piece i on: a quote, pieces of one line, a quote.
JSONString(t, i) ==
    LET close == IndexFrom(t, "\"", i + 1)
    IN  IF \/ i > Len(t)
           \/ t[i] # "\""
           \/ close = 0
           \/ IndexFrom(SubSeq(t, i + 1, close - 1), "\n", 1) # 0
        THEN SyntaxError
        ELSE [ok |-> TRUE, value |-> JStr(TextOf(SubSeq(t, i + 1, close - 1))),
              next |-> close + 1]

RECURSIVE JSONValue(_, _), JSONMembers(_, _, _)

\* The members of an object from piece i on, kv the members read so far: a
\* key, a colon, a value, and then a closing brace or a comma and the next
\* member.
JSONMembers(t, i, kv) ==
    LET key == JSONString(t, i)
        colon == SkipSpace(t, key.next)
        v == JSONValue(t, SkipSpace(t, colon + 1))
        k == SkipSpace(t, v.next)
    IN  IF ~key.ok \/ colon > Len(t) \/ t[colon] # ":" THEN SyntaxError
        ELSE IF ~v.ok \/ k > Len(t) THEN SyntaxError
        ELSE IF t[k] = "}"
        THEN [ok |-> TRUE, value |-> JObj(PutMember(kv, key.value.s, v.value)),
              next |-> k + 1]
        ELSE IF t[k] = ","
        THEN JSONMembers(t, SkipSpace(t, k + 1), PutMember(kv, key.value.s, v.value))
        ELSE SyntaxError

\* The value that starts at piece i.
JSONValue(t, i) ==
    IF i > Len(t) THEN SyntaxError
    ELSE IF t[i] = "{"
    THEN IF SkipSpace(t, i + 1) <= Len(t) /\ t[SkipSpace(t, i + 1)] = "}"
         THEN [ok |-> TRUE, value |-> JObj(<<>>), next |-> SkipSpace(t, i + 1) + 1]
         ELSE JSONMembers(t, SkipSpace(t, i + 1), <<>>)
    ELSE IF t[i] = "\"" THEN JSONString(t, i)
    ELSE IF t[i] = "null" THEN [ok |-> TRUE, value |-> JNull, next |-> i + 1]
    ELSE IF \E n \in 0..9 : DigitStr(n) = t[i]
    THEN [ok |-> TRUE, value |-> JNum(CHOOSE n \in 0..9 : DigitStr(n) = t[i]),
          next |-> i + 1]
    ELSE SyntaxError

\* JSON.parse(text), [ok, value]: one value and nothing but white space
\* after it
JSONParse(t) ==
    LET v == JSONValue(t, SkipSpace(t, 1))
    IN  IF v.ok /\ SkipSpace(t, v.next) > Len(t)
        THEN [ok |-> TRUE, value |-> v.value]
        ELSE [ok |-> FALSE, value |-> JUndef]

---------------------------------------------------------------------------
(* DataMapper.parseMixedContent, after the generation service has answered *)

\* The text after the first opening fence that a line break follows, piece
\* p its first piece: up to the first line break that a fence follows.
RECURSIVE FenceEnd(_, _)
FenceEnd(t, e) ==
    IF e + 1 > Len(t) THEN 0
    ELSE IF t[e] = "\n" /\ t[e + 1] = Fence THEN e
    ELSE FenceEnd(t, e + 1)

\* Where the block of the fence at piece i starts: after the line break,
\* the word json before it or not; 0 when no line break follows.
FenceStart(t, i) ==
    IF i + 1 <= Len(t) /\ t[i + 1] = "\n" THEN i + 2
    ELSE IF i + 2 <= Len(t) /\ t[i + 1] = "json" /\ t[i + 2] = "\n" THEN i + 3
    ELSE 0

\* structureAnalysis.match(fenceRegex) from piece i on: the leftmost match
RECURSIVE FenceMatchFrom(_, _)
FenceMatchFrom(t, i) ==
    IF i > Len(t) THEN [ok |-> FALSE, block |-> <<>>]
    ELSE IF /\ t[i] = Fence
            /\ FenceStart(t, i) # 0
            /\ FenceEnd(t, FenceStart(t, i)) # 0
    THEN [ok |-> TRUE,
          block |-> SubSeq(t, FenceStart(t, i), FenceEnd(t, FenceStart(t, i)) - 1)]
    ELSE FenceMatchFrom(t, i + 1)

\* structureAnalysis.match(/(\{[\s\S]*\})/): first opening to last closing brace
BracesMatch(t) ==
    LET open == IndexFrom(t, "{", 1)
        closes == {i \in 1..Len(t) : t[i] = "}" /\ i > open}
    IN  IF open # 0 /\ closes # {}
        THEN [ok |-> TRUE,
              block |-> SubSeq(t, open, CHOOSE i \in closes : \A j \in closes : i >= j)]
        ELSE [ok |-> FALSE, block |-> <<>>]

\* jsonContent before the clean-up: the trimmed block of the fence when there
\* is one and it is not empty, else the trimmed text between the braces,
\* else nothing
JsonContent(t) ==
    LET block == FenceMatchFrom(t, 1)
    IN  IF block.ok /\ block.block # <<>> THEN Trim(block.block)
        ELSE IF BracesMatch(t).ok THEN Trim(BracesMatch(t).block)
        ELSE <<>>

\* .replace(/,\s*]/g, ']') and .replace(/,\s*}/g, '}'), close the bracket
RECURSIVE RemoveCommaBefore(_, _)
RemoveCommaBefore(t, close) ==
    IF t = <<>> THEN <<>>
    ELSE IF /\ Head(t) = ","
            /\ SkipSpace(t, 2) <= Len(t)
            /\ t[SkipSpace(t, 2)] = close
    THEN <<close>> \o RemoveCommaBefore(SubSeq(t, SkipSpace(t, 2) + 1, Len(t)), close)
    ELSE <<Head(t)>> \o RemoveCommaBefore(Tail(t), close)

\* .replace(/}\s*{/g, '},{')
RECURSIVE CommaBetweenObjects(_)
CommaBetweenObjects(t) ==
    IF t = <<>> THEN <<>>
    ELSE IF /\ Head(t) = "}"
            /\ SkipSpace(t, 2) <= Len(t)
            /\ t[SkipSpace(t, 2)] = "{"
    THEN <<"}", ",", "{">> \o CommaBetweenObjects(SubSeq(t, SkipSpace(t, 2) + 1, Len(t)))
    ELSE <<Head(t)>> \o CommaBetweenObjects(Tail(t))

\* .replace(/,,+/g, ',')
RECURSIVE OneComma(_)
OneComma(t) ==
    IF t = <<>> THEN <<>>
    ELSE IF Head(t) = "," /\ Len(t) >= 2 /\ t[2] = "," THEN OneComma(Tail(t))
    ELSE <<Head(t)>> \o OneComma(Tail(t))

\* The clean-up of jsonContent, its four replacements in their order.
CleanUp(jsonContent) ==
    OneComma(CommaBetweenObjects(
        RemoveCommaBefore(RemoveCommaBefore(jsonContent, "]"), "}")))

\* The loop over the characters of jsonContent from piece i on: the
\* substrings from an opening brace to the brace that closes it.
RECURSIVE PotentialJsonObjects(_, _, _, _)
PotentialJsonObjects(t, i, startPos, bracketCount) ==
    IF i > Len(t) THEN <<>>
    ELSE IF t[i] = "{" /\ startPos = -1 THEN PotentialJsonObjects(t, i + 1, i, 1)
    ELSE IF t[i] = "{" THEN PotentialJsonObjects(t, i + 1, startPos, bracketCount + 1)
    ELSE IF t[i] = "}" /\ bracketCount - 1 = 0 /\ startPos # -1
    THEN <<SubSeq(t, startPos, i)>> \o PotentialJsonObjects(t, i + 1, -1, 0)
    ELSE IF t[i] = "}" THEN PotentialJsonObjects(t, i + 1, startPos, bracketCount - 1)
    ELSE PotentialJsonObjects(t, i + 1, startPos, bracketCount)

\* One step of potentialJsonObjects.sort((a, b) => b.length - a.length):
\* the longest first, equal lengths in their order
RECURSIVE InsertLonger(_, _)
InsertLonger(sorted, x) ==
    IF sorted = <<>> THEN <<x>>
    ELSE IF CharLen(Head(sorted)) >= CharLen(x)
    THEN <<Head(sorted)>> \o InsertLonger(Tail(sorted), x)
    ELSE <<x>> \o sorted

RECURSIVE SortByLength(_, _)
SortByLength(objects, n) ==
    IF n = 0 THEN <<>> ELSE InsertLonger(SortByLength(objects, n - 1), objects[n])

\* The text given to parseMixedContent's steps: the pieces of the answer, or
\* undefined when the answer of the service holds no response.
Response(t) == [t |-> "text", pieces |-> t]

\* A faulty loop: no fallback after the last candidate, its SyntaxError raised.
RECURSIVE ParseCandidatesOrThrow(_, _)
ParseCandidatesOrThrow(t, objects) ==
    IF objects = <<>>
    THEN [err |-> "SyntaxError", via |-> "none", structure |-> JUndef]
    ELSE IF JSONParse(Head(objects)).ok
    THEN [err |-> "none", via |-> "candidate", structure |-> JSONParse(Head(objects)).value]
    ELSE ParseCandidatesOrThrow(t, Tail(objects))

\* The loop over the sorted candidates: the first that parses is returned,
\* and extractFieldsFromText(structureAnalysis) when none does.
RECURSIVE ParseCandidates(_, _)
ParseCandidates(t, objects) ==
    IF objects = <<>>
    THEN [err |-> "none", via |-> "text", structure |-> ExtractFieldsFromPieces(t)]
    ELSE IF JSONParse(Head(objects)).ok
    THEN [err |-> "none", via |-> "candidate", structure |-> JSONParse(Head(objects)).value]
    ELSE ParseCandidates(t, Tail(objects))

\* if (jsonContent) { clean up, parse, and in the catch the candidates }
\* else extractFieldsFromText
ParseJsonContent(t, jsonContent, cleaned, objects) ==
    IF jsonContent = <<>>
    THEN [err |-> "none", via |-> "text", structure |-> ExtractFieldsFromPieces(t)]
    ELSE IF JSONParse(cleaned).ok
    THEN [err |-> "none", via |-> "parse", structure |-> JSONParse(cleaned).value]
    ELSE ParseCandidates(t, SortByLength(objects, Len(objects)))

\* parseMixedContent(content), the content given piece by piece and gen the
\* answer of the service, [ok, response]: generate throws outside the try
\* block; undefined for a response has no match method, the TypeError is
\* caught and the fields are extracted from the content.
ParseMixedPieces(content, gen) ==
    IF ~gen.ok
    THEN [err |-> "ServiceError", via |-> "none", structure |-> JUndef]
    ELSE IF gen.response.t = "undef"
    THEN [err |-> "none", via |-> "catch", structure |-> ExtractFieldsFromPieces(content)]
    ELSE ParseJsonContent(gen.response.pieces, JsonContent(gen.response.pieces),
                          CleanUp(JsonContent(gen.response.pieces)),
                          PotentialJsonObjects(CleanUp(JsonContent(gen.response.pieces)),
                                               1, -1, 0))

\* path.extname(filePath).toLowerCase(), for a.json, A.JSON and a.txt
ExtName(filePath) == IF filePath = "a.txt" THEN ".txt" ELSE ".json"

\* A faulty dispatch: the extension alone, the content never parsed directly.
ParseWithService(fileExt, content, gen, mixed) ==
    [err |-> mixed.err, log |-> <<"readFile", "generate">>, structure |-> mixed.structure]

\* parseDataFile(filePath) after the file has been read: the structure, and
\* the calls made
ParseFileContent(fileExt, content, gen, mixed) ==
    IF fileExt = ".json" /\ JSONParse(content).ok
    THEN [err |-> "none", log |-> <<"readFile">>, structure |-> JSONParse(content).value]
    ELSE [err |-> mixed.err, log |-> <<"readFile", "generate">>,
          structure |-> mixed.structure]

---------------------------------------------------------------------------
(* The parser, call by call *)

MaxSegments == 4
MaxLines == 2
MaxSchemaDepth == 2

\* What the calls of the parser are given:
\*   responses  the texts the generation service answers with, of up to
\*              MaxSegments of: braces, a member, a comma, the fences, a word
\*   lines      the lines `Name: description`
\*   contents   the contents of the files, JSON texts and texts that are none
\*   answers    the answers to the prompt that holds the content of a file,
\*              [ok, response]: none, one without response, texts
\*   keys       the keys of the nested mappings of a schema, by depth
Parser ==
    [responses |->
        {Lex(ConcatAll(s, Len(s))) :
            s \in UNION {[1..n -> { <<"{">>, <<"}">>, <<"\"", "id", "\"", ":", "1">>,
                                    <<",">>, <<Fence, "\n">>, <<"\n", Fence>>, <<"x">> }] :
                           n \in 0..MaxSegments}},
     lines |-> [name : {"CustomerID", "Email"},
                description : { <<"unique", " ", "identifier">>,
                                <<"contact", " ", "email">> }],
     contents |->
        { <<"{", "\"", "id", "\"", ":", "1", "}">>,
          <<"{", "\"", "name", "\"", ":", " ", "\"", "Ann", "\"", ",", "}">>,
          <<"{", "}", "\n">>,
          <<"null">>,
          <<"Email", ":", " ", "contact", " ", "email">>,
          <<>> },
     answers |->
        { [ok |-> FALSE, response |-> JUndef],
          [ok |-> TRUE, response |-> JUndef],
          [ok |-> TRUE, response |-> Response(<<"x">>)],
          [ok |-> TRUE,
           response |-> Response(<<Fence, "json", "\n", "{", "}", "\n", Fence>>)] },
     keys |-> <<"city", "address", "customer", "order">>]

\* lines.join on line breaks
RECURSIVE JoinLines(_)
JoinLines(lines) ==
    IF lines = <<>> THEN <<>>
    ELSE <<lines[1].name, ":", " ">> \o lines[1].description
         \o (IF Len(lines) = 1 THEN <<>> ELSE <<"\n">> \o JoinLines(Tail(lines)))

\* The schemas: nested mappings d deep, a node holding a type (and a
\* description) or none, a child or none and a typed node "id" or none; a
\* child is a node, a string or an array.
RECURSIVE SchemaNodes(_)
SchemaNodes(d) ==
    LET leaves == {JStr("x"), JArr(<<>>)}
        types == { <<>>,
                   << <<"type", JStr("string")>> >>,
                   << <<"type", JStr("string")>>, <<"description", JStr("town")>> >> }
        ids == {<<>>, << <<"id", JObj(<< <<"type", JStr("number")>> >>)>> >>}
    IN  IF d = 0 THEN leaves \cup {JObj(type) : type \in types}
        ELSE leaves
             \cup {JObj(type \o child \o id) :
                     type \in types,
                     child \in {<<>>} \cup {<< <<Parser.keys[d], v>> >> :
                                               v \in SchemaNodes(d - 1)},
                     id \in ids}

\* The parser keeps no state: every call is made on the mapper as constructed.
Fresh == pc = "idle" /\ last.op = "constructor"

Parsed(result) ==
    /\ last' = result
    /\ UNCHANGED <<vectorStore, initialized, pc, call, batch>>

\* parseMixedContent("x") is called and the service answers or fails.
ParseMixedContentCall ==
    /\ Fresh
    /\ \E gen \in {[ok |-> FALSE, response |-> JUndef], [ok |-> TRUE, response |-> JUndef]}
                  \cup {[ok |-> TRUE, response |-> Response(t)] : t \in Parser.responses} :
        \E result \in {ParseMixedPieces(<<"x">>, gen)} :
            Parsed([op |-> "parseMixedContent", gen |-> gen, err |-> result.err,
                    via |-> result.via, structure |-> result.structure])

\* extractFieldsFromText(text) is called on lines `Name: description`, a line
\* break after the last line or none.
ExtractFieldsFromTextCall ==
    /\ Fresh
    /\ \E lines \in UNION {[1..n -> Parser.lines] : n \in 1..MaxLines},
          ending \in {<<>>, <<"\n">>} :
        Parsed([op |-> "extractFieldsFromText", lines |-> lines, ending |-> ending,
                structure |-> ExtractFieldsFromPieces(JoinLines(lines) \o ending)])

\* extractFieldsFromText(text) is called on notes of up to MaxLines lines: a
\* labelled line, a line labelled with a structural word, a capitalized
\* word, a word, a bullet and a line with a dash.
ExtractFieldsFromNotesCall ==
    /\ Fresh
    /\ \E lines \in UNION {[1..n -> { <<"Email", ":", " ", "contact">>,
                                      <<"Content", ":", " ", "text">>,
                                      <<"Email">>,
                                      <<"x">>,
                                      <<"-", " ", "Content", ":", " ", "Ann">>,
                                      <<"Content", " ", "-", " ", "Name">> }] :
                             n \in 1..MaxLines} :
        \E text \in {ConcatAll([n \in 1..Len(lines) |->
                                   IF n = 1 THEN lines[n] ELSE <<"\n">> \o lines[n]],
                               Len(lines))} :
            Parsed([op |-> "extractFieldsFromNotes", text |-> text,
                    structure |-> ExtractFieldsFromPieces(text)])

\* parseDataFile(filePath) is called, the file holding content.
ParseDataFileCall ==
    /\ Fresh
    /\ \E filePath \in {"a.json", "A.JSON", "a.txt"}, content \in Parser.contents,
          gen \in Parser.answers :
        \E result \in {ParseFileContent(ExtName(filePath), content, gen,
                                        ParseMixedPieces(content, gen))} :
            Parsed([op |-> "parseDataFile", filePath |-> filePath, content |-> content,
                    err |-> result.err, log |-> result.log,
                    structure |-> result.structure])

\* embedDataStructure derives the fields of a structure that holds a schema.
ExtractFieldsFromSchemaCall ==
    /\ Fresh
    /\ \E schema \in {node \in SchemaNodes(MaxSchemaDepth) : node.t = "obj"} :
        \E found \in {FieldsToEmbed([structure |-> JObj(<< <<"schema", schema>> >>),
                                     content |-> "N/A"])} :
            Parsed([op |-> "extractFieldsFromSchema", schema |-> schema,
                    err |-> found.err, fields |-> found.fields])

\* embedDataStructure derives the fields of a structure that is null or an
\* object holding, or not, a schema (typed, empty or a string), a field list
\* (of one entry, empty, or no list) and one more property, the content a
\* text with `Name: description` lines or one without.
FieldsToEmbedCall ==
    /\ Fresh
    /\ \E schema \in {<<>>,
                      << <<"schema", JObj(<< <<"id", JObj(<< <<"type", JStr("number")>> >>)>> >>)>> >>,
                      << <<"schema", JObj(<<>>)>> >>,
                      << <<"schema", JStr("x")>> >>},
          fields \in {<<>>,
                      << <<"fields", JArr(<< JObj(<< <<"field", JStr("Email")>>,
                                                     <<"description", JStr("contact")>> >>) >>)>> >>,
                      << <<"fields", JArr(<<>>)>> >>,
                      << <<"fields", JStr("x")>> >>},
          other \in {<<>>, << <<"name", JStr("Ann")>> >>},
          content \in {"notes", "N/A"} :
        \E structure \in {JNull, JObj(schema \o fields \o other), JObj(other \o fields \o schema)} :
            \E found \in {FieldsToEmbed([structure |-> structure, content |-> content])} :
                Parsed([op |-> "fieldsToEmbed", structure |-> structure,
                        content |-> content, err |-> found.err, fields |-> found.fields])

NextParse ==
    \/ ParseMixedContentCall
    \/ ExtractFieldsFromTextCall
    \/ ParseDataFileCall
    \/ ExtractFieldsFromSchemaCall
    \/ FieldsToEmbedCall
    \/ ExtractFieldsFromNotesCall

SpecParse == Init /\ [][NextParse]_vars

---------------------------------------------------------------------------
(* The vector store *)

IsPrefix(s, t) == Len(s) <= Len(t) /\ \A i \in 1..Len(s) : s[i] = t[i]

MapCallReturned == pc = "idle" /\ last.op = "mapDataStructures"

ExtractCallReturned == pc = "idle" /\ last.op = "extractKnowledgeFromVectorDB"

\* C1: in every reachable state all records of the vector store have vectors
\* of one length (an insertion of another length being rejected with
\* DimensionMismatch). embedDataStructure pushes whatever the embedding
\* service returned, so the store comes to hold vectors of two lengths.
C1_StoreHasOneDimension ==
    \A i, j \in 1..Len(vectorStore) :
        Len(vectorStore[i].vector) = Len(vectorStore[j].vector)

\* C2: the vector store is append-only. Every step of every operation leaves
\* the records of the store where they were and as they were, new records
\* coming after them; the reload of the map command, which assigns the store,
\* runs on the empty store of a mapper just constructed.
C2_StoreIsAppendOnly == [][IsPrefix(vectorStore, vectorStore')]_vars

\* A mapping call has pushed records behind those a load had pushed.
C2_Witness ==
    /\ MapCallReturned
    /\ last.before >= 1
    /\ Len(vectorStore) > last.before

\* C3: in extractKnowledgeFromVectorDB every result of the document query is
\* a record of type 'document' and every result of the field query is a
\* record of type 'field'.
C3_QueriesReturnOnlyTheirKind ==
    ExtractCallReturned =>
        /\ \A i \in 1..Len(last.similarDocuments) :
               last.similarDocuments[i].metadata.type = "document"
        /\ \A i \in 1..Len(last.similarFields) :
               last.similarFields[i].metadata.type = "field"

\* Both queries returned results, from a store that holds both kinds.
C3_Witness ==
    /\ ExtractCallReturned
    /\ Len(last.similarDocuments) >= 1
    /\ Len(last.similarFields) >= 2
    /\ Len(OfType(vectorStore, "document")) >= 2

\* C4: for every store and every topK >= 0, an extractKnowledgeFromVectorDB
\* call that comes to its two queries retrieves min(topK, number of document
\* records) documents and min(2 * topK, number of field records) fields:
\* k counts the results after the filter by kind.
C4_TopKCountsFilteredResults ==
    [][(/\ pc = "idle" /\ pc' = "idle"
        /\ last'.op = "extractKnowledgeFromVectorDB"
        /\ last'.retrieved
        /\ last'.topK >= 0)
       => /\ Len(last'.similarDocuments)
               = Min(last'.topK, Len(OfType(vectorStore, "document")))
          /\ Len(last'.similarFields)
               = Min(2 * last'.topK, Len(OfType(vectorStore, "field")))]_vars

\* With topK = 1 one document is retrieved although two fields of the store
\* are more similar to the query than any document, and two fields although
\* the store holds three.
C4_Witness ==
    /\ ExtractCallReturned
    /\ last.retrieved
    /\ last.topK = 1
    /\ Len(last.similarDocuments) = 1
    /\ Len(last.similarFields) = 2
    /\ Len(OfType(vectorStore, "field")) = 3
    /\ \A i \in 1..2 : RatLess(last.similarDocuments[1].similarity,
                               last.similarFields[i].similarity)

\* C5: mapDataStructures on a mapper whose initialized flag is not set (no
\* loadDataFiles call has completed) ends with NotInitialized at once: it
\* does not go on to parse, it has read no file and called no service, and
\* the vector store is as it was.
C5_MapNeedsInitialization ==
    [][(~initialized /\ pc = "idle")
       => /\ pc' # "map:parseSource"
          /\ (last' # last /\ last'.op = "mapDataStructures")
             => /\ pc' = "idle"
                /\ last'.err = "NotInitialized"
                /\ last'.log = <<>>
                /\ vectorStore' = vectorStore]_vars

\* The call failed on a mapper whose store a direct embedDataStructure call
\* had filled.
C5_Witness ==
    /\ MapCallReturned
    /\ ~initialized
    /\ last.err = "NotInitialized"
    /\ Len(vectorStore) > 0

\* C6: extractKnowledgeFromVectorDB called while the vector store is empty
\* ends with NotInitialized, whether or not the initialized flag is set; it
\* has embedded no query and called no service, and the store is as it was.
C6_ExtractNeedsRecords ==
    [][(/\ pc = "idle"
        /\ Len(vectorStore) = 0
        /\ last' # last
        /\ last'.op = "extractKnowledgeFromVectorDB")
       => /\ last'.err = "NotInitialized"
          /\ last'.log = <<>>
          /\ ~last'.retrieved
          /\ vectorStore' = vectorStore]_vars

\* The call failed on an initialized mapper, for a query that could have
\* been embedded.
C6_Witness ==
    /\ ExtractCallReturned
    /\ initialized
    /\ Len(vectorStore) = 0
    /\ last.query # ""
    /\ last.err = "NotInitialized"

---------------------------------------------------------------------------
(* The mapping *)

MapReturned == MapCallReturned /\ last.err = "none"

\* The cosine of the i-th field of the source and the j-th of the target.
FieldCosine(source, target, i, j) ==
    CosineSimilarity(source.embeddings.fields[i].vector,
                     target.embeddings.fields[j].vector)

\* C7: a result of mapDataStructures has one mapping per embedded source
\* field, in the order of the source fields; each lists min(3, number of
\* target fields) candidates, which are distinct fields of the target
\* structure with their cosine to the source field as confidence, in
\* descending order of confidence, so that no target field is more similar
\* to the source field than the first candidate.
C7_MappingsRankTargetFields ==
    MapReturned =>
        LET source == last.sourceEmbedded
            target == last.targetEmbedded
            targets == 1..Len(target.embeddings.fields)
        IN  /\ Len(last.fieldMappings) = Len(source.embeddings.fields)
            /\ \A i \in 1..Len(last.fieldMappings) :
                 LET matches == last.fieldMappings[i].targetMatches
                 IN  /\ last.fieldMappings[i].sourceField = source.embeddings.fields[i].field
                     /\ Len(matches) = Min(TopMatches, Len(target.embeddings.fields))
                     /\ \E at \in [1..Len(matches) -> targets] :
                          /\ \A k, l \in 1..Len(matches) : at[k] = at[l] => k = l
                          /\ \A k \in 1..Len(matches) :
                               /\ matches[k].targetField
                                      = target.embeddings.fields[at[k]].field
                               /\ matches[k].confidence
                                      = FieldCosine(source, target, i, at[k])
                     /\ \A k \in 1..(Len(matches) - 1) :
                          ~RatLess(matches[k].confidence, matches[k + 1].confidence)
                     /\ \A j \in targets :
                          ~RatLess(matches[1].confidence, FieldCosine(source, target, i, j))

\* A source field was mapped to three of four target fields, the first a
\* better match than the last.
C7_Witness ==
    /\ MapReturned
    /\ Len(last.targetEmbedded.embeddings.fields) = 4
    /\ Len(last.fieldMappings) >= 1
    /\ Len(last.fieldMappings[1].targetMatches) = 3
    /\ RatLess(last.fieldMappings[1].targetMatches[3].confidence,
               last.fieldMappings[1].targetMatches[1].confidence)

---------------------------------------------------------------------------
(* The embedding of a structure *)

EmbedCallReturned == pc = "idle" /\ last.op = "embedDataStructure" /\ last.err = "none"

\* C9: an embedDataStructure call that returns has embedded the content as
\* the document vector, whatever the number of extracted fields, and has
\* appended one record of type 'document' and then one record of type
\* 'field' per extracted field, in the order of the fields, each with the
\* filename and the path of the structure; a record of the store has a field
\* name if and only if its type is 'field'.
C9_DocumentThenFields ==
    /\ EmbedCallReturned =>
         LET found == FieldsToEmbed(last.embedded).fields
             n == Len(found)
         IN  /\ Len(last.answers) = n + 1
             /\ Len(vectorStore) = last.before + n + 1
             /\ vectorStore[last.before + 1]
                  = [vector |-> last.answers[n + 1].v,
                     metadata |-> [type |-> "document",
                                   filename |-> last.embedded.filename,
                                   path |-> last.embedded.path]]
             /\ \A i \in 1..n :
                  vectorStore[last.before + 1 + i]
                    = [vector |-> last.answers[i].v,
                       metadata |-> [type |-> "field", field |-> found[i].field,
                                     filename |-> last.embedded.filename,
                                     path |-> last.embedded.path]]
    /\ \A i \in 1..Len(vectorStore) :
         /\ vectorStore[i].metadata.type \in {"document", "field"}
         /\ ("field" \in DOMAIN vectorStore[i].metadata)
              <=> vectorStore[i].metadata.type = "field"

\* A structure of two fields was embedded behind a structure of none.
C9_Witness ==
    /\ EmbedCallReturned
    /\ last.before = 1
    /\ vectorStore[1].metadata.path = "d/null.json"
    /\ Len(vectorStore) = 4
    /\ vectorStore[3].metadata.field # vectorStore[4].metadata.field

---------------------------------------------------------------------------
(* The batches of the embedder *)

\* C10: an embedBatch call that returns gives as many vectors as it was
\* given texts, the i-th the vector the service answered for the i-th text,
\* for every batch size and every order in which the requests completed.
C10_BatchKeepsOrder ==
    batch.phase = "returned" =>
        /\ Len(batch.embeddings) = Len(batch.texts)
        /\ \A k \in 1..Len(batch.texts) :
             batch.answered[k] = Fulfilled(batch.embeddings[k])

\* Three texts in chunks of two, the second request answered before the
\* first and with another vector.
C10_Witness ==
    /\ batch.phase = "returned"
    /\ Len(batch.texts) = 3
    /\ batch.batchSize = 2
    /\ batch.order = <<2, 1, 3>>
    /\ batch.embeddings[1] # batch.embeddings[2]

\* The texts of the call whose embedText has been called.
BatchStartedTexts == 1..Min(batch.i + Len(batch.results), Len(batch.texts))

\* The texts whose embedding has failed: embedText threw on the text or on
\* the answer of the service.
BatchFailedTexts ==
    {k \in BatchStartedTexts :
        InvalidText(batch.texts[k]) \/ batch.answered[k] = Rejected}

\* The error embedText throws for the k-th text when it fails.
BatchErrorOf(k) ==
    IF InvalidText(batch.texts[k]) THEN "InvalidInput" ELSE "ServiceError"

\* C11: once the embedding of one text of an embedBatch call has failed, the
\* call does not return and pushes no further vectors: it is awaiting the
\* chunk of that text or has thrown, with the error of a failed text; and no
\* embedText call is ever made for a text of a later chunk.
C11_NoPartialSuccess ==
    BatchFailedTexts # {} =>
        /\ batch.phase \in {"await", "thrown"}
        /\ batch.phase = "thrown" =>
             \E k \in BatchFailedTexts : batch.err = BatchErrorOf(k)
        /\ \A k \in BatchFailedTexts : k > batch.i
        /\ BatchStartedTexts \subseteq 1..(batch.i + batch.batchSize)
        /\ \A k \in 1..Len(batch.texts) :
             k > batch.i + batch.batchSize => batch.answered[k] = Pending

\* The call has thrown on the second of three chunks: the vector of the
\* first chunk is not returned and the third text was never requested.
C11_Witness ==
    /\ batch.phase = "thrown"
    /\ batch.err = "ServiceError"
    /\ Len(batch.texts) = 3
    /\ batch.batchSize = 1
    /\ Len(batch.embeddings) = 1
    /\ batch.answered[2] = Rejected
    /\ batch.answered[3] = Pending

\* The elements embedText refuses: the empty string and what is no string.
NoText(text) == text \in {JStr(""), JNum(7)}

\* C12: embedBatch throws InvalidInput for an empty list and for an argument
\* that is no array, before any embedText call; embedText throws
\* InvalidInput for the empty string and for an element that is no string,
\* and no request for that element is ever sent to the service.
C12_InvalidInputBeforeAnyRequest ==
    /\ (batch.argument \in {"str", "undef"}
        \/ (batch.argument = "arr" /\ Len(batch.texts) = 0))
       => /\ batch.phase = "thrown"
          /\ batch.err = "InvalidInput"
          /\ batch.results = <<>>
          /\ batch.order = <<>>
    /\ \A k \in BatchStartedTexts :
         NoText(batch.texts[k])
         => /\ batch.results[k - batch.i] = Rejected
            /\ batch.answered[k] = Pending
            /\ \A n \in 1..Len(batch.order) : batch.order[n] # k
            /\ batch.phase = "thrown" => batch.err = "InvalidInput"

\* The call has thrown for an empty string that followed a text whose
\* request had been sent and answered.
C12_Witness ==
    /\ batch.phase = "thrown"
    /\ batch.err = "InvalidInput"
    /\ batch.texts = <<JStr("t"), JStr("")>>
    /\ batch.batchSize = 2
    /\ batch.order = <<1>>

---------------------------------------------------------------------------
(* utils/vector-utils.js, call by call *)

MaxCandidates == 3

\* The vectors of the calls: of two dimensions and of one, with a negative
\* component, with a norm that is no unit, and of norm zero.
Vectors == {<<1, 0>>, <<-1, 0>>, <<3, 4>>, <<0, 0>>, <<1>>}

\* cosineSimilarity(a, b) is called.
CosineSimilarityCall ==
    /\ Fresh
    /\ \E a, b \in Vectors \cup {<<>>} :
        Parsed([op |-> "cosineSimilarity", a |-> a, b |-> b,
                similarity |-> CosineSimilarity(a, b)])

\* findSimilarVectors(queryVector, vectorStore, topK) is called on up to
\* MaxCandidates candidates, the metadata of each its place in the list.
FindSimilarVectorsCall ==
    /\ Fresh
    /\ \E queryVector \in {<<1, 0>>, <<3, 4>>, <<0, 0>>},
          vectors \in UNION {[1..n -> Vectors] : n \in 0..MaxCandidates},
          topK \in -MaxCandidates..MaxCandidates + 1 :
        \E found \in {FindSimilarVectors(queryVector,
                          [i \in 1..Len(vectors) |-> [vector |-> vectors[i], metadata |-> i]],
                          topK)} :
            Parsed([op |-> "findSimilarVectors", queryVector |-> queryVector,
                    vectors |-> vectors, topK |-> topK,
                    ok |-> found.ok, results |-> found.results])

NextVector ==
    \/ CosineSimilarityCall
    \/ FindSimilarVectorsCall

SpecVector == Init /\ [][NextVector]_vars

---------------------------------------------------------------------------
(* The structure parser *)

ParseMixedReturned == last.op = "parseMixedContent" /\ last.gen.ok

\* The result of extractFieldsFromText(t): a field list and the text.
IsFieldList(structure, t) ==
    /\ IsObject(structure)
    /\ Get(structure, "fields").t = "arr"
    /\ Get(structure, "raw") = JStr(TextOf(t))

\* What the stages make of the answer t: the direct parse of the cleaned
\* JSON content, else a balanced-brace candidate that parses, else the
\* heuristic extraction from t.
StagesGive(structure, t, cleaned, candidates) ==
    IF JsonContent(t) # <<>> /\ JSONParse(cleaned).ok
    THEN structure = JSONParse(cleaned).value
    ELSE IF JsonContent(t) # <<>>
            /\ \E n \in 1..Len(candidates) : JSONParse(candidates[n]).ok
    THEN \E n \in 1..Len(candidates) :
            JSONParse(candidates[n]).ok /\ structure = JSONParse(candidates[n]).value
    ELSE IsFieldList(structure, t)

\* C13: once the generation service has answered, parseMixedContent raises
\* nothing and returns a structure for every response text: the direct parse
\* when it succeeds, else a balanced-brace candidate that parses, else the
\* result of the heuristic extraction, whose field list may be empty.
C13_ParserNeverRaises ==
    ParseMixedReturned =>
        /\ last.err = "none"
        /\ last.structure # JUndef
        /\ last.gen.response.t = "text" =>
             StagesGive(last.structure, last.gen.response.pieces,
                        CleanUp(JsonContent(last.gen.response.pieces)),
                        PotentialJsonObjects(CleanUp(JsonContent(last.gen.response.pieces)),
                                             1, -1, 0))

\* The answer {x}: the direct parse and the one candidate fail, and the
\* heuristic extraction returns an empty field list.
C13_Witness ==
    /\ ParseMixedReturned
    /\ last.gen = [ok |-> TRUE, response |-> Response(<<"{", "x", "}">>)]
    /\ last.err = "none"
    /\ last.via = "text"
    /\ Get(last.structure, "fields") = JArr(<<>>)

ParseDataFileReturned == last.op = "parseDataFile"

\* The file was parsed directly: the structure is what JSON.parse makes of
\* the content and the generation service was not called.
ParsedDirectly ==
    /\ last.err = "none"
    /\ last.structure = JSONParse(last.content).value
    /\ last.log = <<"readFile">>

\* C14 as stated: for every file whose content is syntactically valid JSON,
\* parseDataFile returns the parsed JSON as the structure, by direct parsing
\* and without a call to the generation service.
C14_ValidJsonParsedDirectly ==
    (ParseDataFileReturned /\ JSONParse(last.content).ok) => ParsedDirectly

\* C14 amended: for every file whose name ends in .json, in any case of
\* letters, and whose content is syntactically valid JSON, parseDataFile
\* returns the parsed JSON as the structure, by direct parsing and without a
\* call to the generation service.
C14_JsonFileParsedDirectly ==
    (/\ ParseDataFileReturned
     /\ last.filePath \in {"a.json", "A.JSON"}
     /\ JSONParse(last.content).ok) => ParsedDirectly

\* A.JSON holding an empty object and a line break has been parsed.
C14_Witness ==
    /\ ParseDataFileReturned
    /\ last.filePath = "A.JSON"
    /\ last.content = <<"{", "}", "\n">>
    /\ last.structure = JObj(<<>>)
    /\ last.log = <<"readFile">>

ExtractFieldsReturned == last.op = "extractFieldsFromText"

\* The field at place n is the one of the line: its name and its description.
FieldOfLine(field, line) ==
    /\ Get(field, "field") = JStr(line.name)
    /\ Get(field, "description") = JStr(TextOf(line.description))

\* C15: for every text made of lines `Name: description`, the fields that
\* extractFieldsFromText returns hold, for each line and in the order of the
\* lines, a field named Name whose description is the description of the line.
C15_LabelLinesBecomeFields ==
    ExtractFieldsReturned =>
        \E place \in [1..Len(last.lines) -> 1..MaxLines + 1] :
            /\ \A n \in 1..Len(last.lines) :
                 /\ place[n] <= Len(Get(last.structure, "fields").items)
                 /\ FieldOfLine(Get(last.structure, "fields").items[place[n]], last.lines[n])
            /\ \A m, n \in 1..Len(last.lines) : m < n => place[m] < place[n]

---------------------------------------------------------------------------
(* The schema walker *)

SchemaWalked == last.op = "extractFieldsFromSchema"

\* The paths of the fields found.
FieldPaths == {last.fields[n].field : n \in 1..Len(last.fields)}

\* The nodes below a mapping that are reached through mappings without a
\* type, each with the keys from the root to it joined by dots: the nodes
\* that hold a type when typed, the mappings that hold none when not.
RECURSIVE NodePaths(_, _, _)
NodePathsAt(value, path, typed) ==
    IF value.t # "obj" THEN {}
    ELSE IF \E n \in 1..Len(value.kv) : value.kv[n][1] = "type"
    THEN (IF typed THEN {path} ELSE {})
    ELSE (IF typed THEN {} ELSE {path}) \cup NodePaths(value, path \o ".", typed)
NodePaths(node, prefix, typed) ==
    UNION {NodePathsAt(node.kv[n][2], prefix \o node.kv[n][1], typed) :
              n \in 1..Len(node.kv)}

\* C16: flattening a typed schema records every node that holds a type as a
\* field whose path is the keys from the root joined by dots, records no
\* nested mapping that holds no type, though it walks it, and yields exactly
\* the path address.city for {address: {city: {type: "string"}}}.
C16_SchemaPathsAreDotJoined ==
    SchemaWalked =>
        /\ last.err = "none"
        /\ NodePaths(last.schema, "", TRUE) \subseteq FieldPaths
        /\ NodePaths(last.schema, "", FALSE) \cap FieldPaths = {}
        /\ last.schema = JObj(<< <<"address", JObj(<< <<"city",
                               JObj(<< <<"type", JStr("string")>> >>)>> >>)>> >>)
           => [n \in 1..Len(last.fields) |-> last.fields[n].field] = <<"address.city">>

\* The schema {address: {city: {type: "string"}}} has been flattened.
C16_Witness ==
    /\ SchemaWalked
    /\ last.schema = JObj(<< <<"address", JObj(<< <<"city",
                            JObj(<< <<"type", JStr("string")>> >>)>> >>)>> >>)
    /\ Len(last.fields) = 1
    /\ last.fields[1].field = "address.city"

---------------------------------------------------------------------------
(* The confidence of a mapping *)

\* C20: every confidence of every mapping that mapDataStructures returns
\* lies in [0, 1], whatever the vectors of the source and target fields,
\* those with negative components among them.
C20_ConfidenceInUnitInterval ==
    MapReturned =>
        \A i \in 1..Len(last.fieldMappings) :
            \A k \in 1..Len(last.fieldMappings[i].targetMatches) :
                /\ ~RatLess(last.fieldMappings[i].targetMatches[k].confidence,
                            [num |-> 0, den |-> 1])
                /\ ~RatLess([num |-> 1, den |-> 1],
                            last.fieldMappings[i].targetMatches[k].confidence)

---------------------------------------------------------------------------
(* The ranking and the cosine *)

\* findSimilarVectors has returned: no cosine threw.
FindReturned == last.op = "findSimilarVectors" /\ last.ok

\* The similarity of the candidate at place c of the call.
CandidateSimilarity(c) == CosineSimilarity(last.queryVector, last.vectors[c])

\* C17: for every query vector, candidate list and k >= 0, the results of
\* findSimilarVectors are min(k, number of candidates) distinct candidates,
\* each with its similarity, in non-increasing order of similarity, and no
\* candidate left out has a similarity greater than one of a result.
C17_TopKIsSortedAndBest ==
    (FindReturned /\ last.topK >= 0) =>
        /\ Len(last.results) = Min(last.topK, Len(last.vectors))
        /\ \A i \in 1..Len(last.results) :
             /\ last.results[i].metadata \in 1..Len(last.vectors)
             /\ last.results[i].similarity = CandidateSimilarity(last.results[i].metadata)
        /\ \A i, j \in 1..Len(last.results) :
             i < j =>
                /\ last.results[i].metadata # last.results[j].metadata
                /\ ~RatLess(last.results[i].similarity, last.results[j].similarity)
        /\ \A c \in 1..Len(last.vectors) :
             (\A i \in 1..Len(last.results) : last.results[i].metadata # c)
             => \A i \in 1..Len(last.results) :
                   ~RatLess(last.results[i].similarity, CandidateSimilarity(c))

\* Two of three candidates were returned, the better before the worse, the
\* one left out worse than both.
C17_Witness ==
    /\ FindReturned
    /\ last.queryVector = <<1, 0>>
    /\ last.vectors = << <<-1, 0>>, <<3, 4>>, <<1, 0>> >>
    /\ last.topK = 2
    /\ Len(last.results) = 2
    /\ last.results[1].metadata = 3
    /\ last.results[2].metadata = 2

\* C18: for every k <= 0, negative k included, and every candidate list,
\* findSimilarVectors returns an empty sequence.
C18_NoResultsForNonPositiveK ==
    (FindReturned /\ last.topK <= 0) => last.results = <<>>

CosineReturned == last.op = "cosineSimilarity"

\* C19: cosineSimilarity throws the dimension error for every two vectors of
\* different lengths, and returns a number for every two of one length: 0
\* when all components of one of them are 0.
C19_CosineChecksDimensions ==
    CosineReturned =>
        /\ Len(last.a) # Len(last.b) => last.similarity = DimensionMismatch
        /\ Len(last.a) = Len(last.b) =>
             /\ last.similarity.ok
             /\ last.similarity.den > 0
             /\ ((\A i \in 1..Len(last.a) : last.a[i] = 0)
                 \/ (\A i \in 1..Len(last.b) : last.b[i] = 0))
                => last.similarity.num = 0

\* The call threw for vectors of two and of one dimension.
C19_Witness ==
    /\ CosineReturned
    /\ last.a = <<3, 4>>
    /\ last.b = <<1>>
    /\ ~last.similarity.ok

---------------------------------------------------------------------------
(* The reload of the saved structures *)

LoadCallReturned == pc = "idle" /\ last.op = "loadDataFiles"

\* C21: the store rebuilt from the structures that a loadDataFiles call
\* returned and `load` saved holds the records that the call appended, with
\* their vectors, types, field names, filenames and paths, in their order;
\* and the store after a reload is the rebuilt store.
C21_ReloadIsFaithful ==
    /\ LoadCallReturned =>
         ReloadRecords([i \in 1..Len(last.structures) |-> Persisted(last.structures[i])])
           = SubSeq(vectorStore, last.before + 1, Len(vectorStore))
    /\ (pc = "idle" /\ last.op = "reload") =>
         /\ vectorStore = ReloadRecords(last.structures)
         /\ initialized

\* A load that skipped no file returned a structure of one field, behind
\* records the store already held.
C21_Witness ==
    /\ LoadCallReturned
    /\ last.before > 0
    /\ Len(last.structures) = 1
    /\ Len(last.structures[1].embeddings.fields) = 1
    /\ last.skipped = <<>>

---------------------------------------------------------------------------
(* The sources of the fields to embed *)

FieldsDerived == last.op = "fieldsToEmbed"

\* The fields of the one source the structure selects: the schema when the
\* structure holds one, else the field list when it holds one, else the walk
\* of the structure itself.
SelectedSource(structure) ==
    IF ~Truthy(structure) THEN <<>>
    ELSE IF Truthy(Get(structure, "schema"))
    THEN ExtractFieldsFromSchema(Get(structure, "schema"), "")
    ELSE IF Truthy(Get(structure, "fields"))
    THEN ConcatAll([i \in 1..Len(Get(structure, "fields").items) |->
                       FieldListEntry(Get(structure, "fields").items[i])],
                   Len(Get(structure, "fields").items))
    ELSE ExtractFieldsFromObject(structure, "")

\* The fields the free-text extraction of the raw content gives.
ContentSource(content) ==
    LET fields == Get(ExtractFieldsFromText(content), "fields").items
    IN  ConcatAll([i \in 1..Len(fields) |-> ContentFieldEntry(fields[i])], Len(fields))

\* C22: the fields embedDataStructure embeds are those of exactly one
\* source of the structure, chosen by precedence (schema, else field list,
\* else the walk of the structure), and those of the free-text extraction of
\* the content if and only if that source gave none; a call fails only in
\* the field list, when that is the selected source.
C22_OneSourceByPrecedence ==
    FieldsDerived =>
        /\ last.err # "none" =>
             /\ Truthy(last.structure)
             /\ ~Truthy(Get(last.structure, "schema"))
             /\ Truthy(Get(last.structure, "fields"))
             /\ Get(last.structure, "fields").t # "arr"
        /\ last.err = "none" =>
             /\ SelectedSource(last.structure) # <<>>
                  => last.fields = SelectedSource(last.structure)
             /\ SelectedSource(last.structure) = <<>>
                  => last.fields = ContentSource(last.content)

\* A structure holds a schema, a field list and one more property, the
\* field list first: the field of the schema alone is embedded, although the
\* content has fields of its own.
C22_Witness ==
    /\ FieldsDerived
    /\ last.content = "notes"
    /\ last.structure.t = "obj"
    /\ Len(last.structure.kv) = 3
    /\ last.structure.kv[2][1] = "fields"
    /\ Truthy(Get(last.structure, "schema"))
    /\ Len(last.fields) = 1
    /\ last.fields[1].field = "id"

---------------------------------------------------------------------------
(* The requests of a batch *)

\* C23: during an embedBatch call with batchSize >= 1, and after it has
\* thrown, at most batchSize of its requests are in flight, all of one
\* chunk; the requests of every earlier chunk have completed with a vector,
\* and no request of a later chunk has been sent.
C23_ChunksAreAwaited ==
    batch.phase # "none" =>
        /\ Cardinality(InFlight) <= batch.batchSize
        /\ Len(batch.results) <= batch.batchSize
        /\ \A k \in 1..Len(batch.texts) :
             /\ k <= batch.i => batch.answered[k].state = "fulfilled"
             /\ k > batch.i + Len(batch.results) =>
                  /\ batch.answered[k] = Pending
                  /\ \A n \in 1..Len(batch.order) : batch.order[n] # k
             /\ batch.answered[k] # Pending =>
                  \E n \in 1..Len(batch.order) : batch.order[n] = k

\* Three texts in chunks of two: the two requests of the first chunk have
\* completed, the second before the first, and the request of the third
\* text is in flight.
C23_Witness ==
    /\ batch.phase = "await"
    /\ Len(batch.texts) = 3
    /\ batch.batchSize = 2
    /\ batch.i = 2
    /\ batch.order = <<2, 1>>
    /\ InFlight = {1}

---------------------------------------------------------------------------
(* The passes of the text extraction *)

NotesExtracted == last.op = "extractFieldsFromNotes"

\* C24: the fields extractFieldsFromText returns are those of one pass: of
\* the label pass when it finds a field, else of the line pass when that
\* finds one, else of the capitalized words.
C24_FieldsOfOnePass ==
    NotesExtracted =>
        LET fields == Get(last.structure, "fields").items
            labels == FieldRegexFrom(last.text, 1)
            lines == LineByLinePass(last.text)
            words == PotentialFields(last.text)
        IN  /\ labels # <<>> => fields = labels
            /\ (labels = <<>> /\ lines # <<>>) => fields = lines
            /\ (labels = <<>> /\ lines = <<>>) => fields = words
            /\ \/ \A n \in 1..Len(fields) : Truthy(Get(fields[n], "type"))
               \/ \A n \in 1..Len(fields) :
                     /\ ~Truthy(Get(fields[n], "type"))
                     /\ Get(fields[n], "description")
                          # JStr("Extracted from text (no explicit description)")
               \/ \A n \in 1..Len(fields) :
                     Get(fields[n], "description")
                       = JStr("Extracted from text (no explicit description)")

\* The label pass found no field in a line with a structural word and a
\* dash, the line pass found one, and the two capitalized words of the line
\* were not extracted.
C24_Witness ==
    /\ NotesExtracted
    /\ last.text = <<"Content", " ", "-", " ", "Name">>
    /\ Len(PotentialFields(last.text)) = 2
    /\ Get(last.structure, "fields").items
         = << JObj(<< <<"field", JStr("Content")>>, <<"description", JStr("Name")>> >>) >>

---------------------------------------------------------------------------
(* The store when an embedding fails *)

\* C25: an embedDataStructure call that fails leaves the store as it was,
\* whether it is called directly, by loadDataFiles (which skips the file) or
\* by mapDataStructures (which fails with it).
C25_FailedEmbeddingLeavesStore ==
    [][/\ (pc = "idle" /\ pc' = "idle" /\ last'.op = "embedDataStructure"
           /\ last'.err # "none")
          => vectorStore' = vectorStore
       /\ (pc = "load" /\ pc' = "load" /\ Len(call'.skipped) > Len(call.skipped))
          => vectorStore' = vectorStore
       /\ (pc \in {"map:embedSource", "map:embedTarget"} /\ pc' = "idle")
          => vectorStore' = vectorStore]_vars

\* On a store that holds records, the embedding of a structure of one field
\* failed after its two requests were sent, and the store holds what it held.
C25_Witness ==
    /\ pc = "idle"
    /\ last.op = "embedDataStructure"
    /\ last.err = "ServiceError"
    /\ last.log = <<"embedding", "embedding">>
    /\ last.before > 0
    /\ Len(vectorStore) = last.before

---------------------------------------------------------------------------
(* The steps of a mapping *)

\* The records appended since the call that `frame` describes was made.
AppendedSince(frame) == SubSeq(vectorStore, frame.before + 1, Len(vectorStore))

\* C26: in a mapDataStructures call the store is the store of before the
\* call until both enrichment queries have run; then the records of the
\* source are appended and then those of the target; so no step of the
\* enrichment changes the store, and a call that reaches the mapping step,
\* whether it goes on to return or to fail, has appended the records of the
\* source followed by those of the target.
C26_MapStepsAreOrdered ==
    /\ [](/\ pc \in {"map:parseSource", "map:parseTarget", "map:enrichSource",
                     "map:enrichTarget", "map:embedSource"}
             => /\ AppendedSince(call) = <<>>
                /\ \A n \in 1..Len(call.log) : call.log[n] # "push"
          /\ pc = "map:embedTarget"
             => AppendedSince(call) = StructureRecords(call.sourceEmbedded)
          /\ pc = "map:mapFields"
             => AppendedSince(call) = StructureRecords(call.sourceEmbedded)
                                      \o StructureRecords(call.targetEmbedded)
          /\ (MapCallReturned /\ last.targetEmbedded # JUndef)
             => AppendedSince(last) = StructureRecords(last.sourceEmbedded)
                                      \o StructureRecords(last.targetEmbedded))
    /\ [][(pc \in {"map:parseSource", "map:parseTarget", "map:enrichSource",
                   "map:enrichTarget"})
          => vectorStore' = vectorStore]_vars

\* A call on a store of two records has run both enrichment queries and
\* stands at the mapping step, the store grown by two records of the source
\* and two of the target.
C26_Witness ==
    /\ pc = "map:mapFields"
    /\ call.before = 2
    /\ call.sourceEnrichment.performed
    /\ call.targetEnrichment.performed
    /\ Len(vectorStore) = 6

---------------------------------------------------------------------------
(* The files of a load *)

\* The paths of filePaths that are not in skipped, in their order.
PathsKept(filePaths, skipped) ==
    SelectSeq(filePaths, LAMBDA p : \A n \in 1..Len(skipped) : skipped[n] # p)

\* C27: loadDataFiles returns whatever happens to its files: the returned
\* structures are those of the files whose parsing and embedding succeeded,
\* in the order of the paths, every other path is skipped, and the store has
\* grown by the records of the returned structures; the call sets the
\* initialized flag, also when it returns no structure, and no step resets it.
C27_LoadSkipsFailedFiles ==
    /\ [](LoadCallReturned =>
            /\ last.err = "none"
            /\ initialized
            /\ Len(last.structures) + Len(last.skipped) = Len(last.filePaths)
            /\ [n \in 1..Len(last.structures) |-> last.structures[n].path]
                 = PathsKept(last.filePaths, last.skipped)
            /\ AppendedSince(last)
                 = ConcatAll([n \in 1..Len(last.structures) |->
                                 StructureRecords(last.structures[n])],
                             Len(last.structures)))
    /\ [][initialized => initialized']_vars

\* On a store that holds records, the first of two files could not be read
\* and the second was embedded.
C27_Witness ==
    /\ LoadCallReturned
    /\ initialized
    /\ last.filePaths = <<"d/missing.json", "d/null.json">>
    /\ last.skipped = <<"d/missing.json">>
    /\ Len(last.structures) = 1
    /\ last.before > 0

---------------------------------------------------------------------------
(* The mappings without a candidate *)

\* The call has embedded both structures, the source with a field and the
\* target with none.
MappedOntoNoField ==
    /\ MapCallReturned
    /\ last.targetEmbedded # JUndef
    /\ Len(last.sourceEmbedded.embeddings.fields) >= 1
    /\ Len(last.targetEmbedded.embeddings.fields) = 0

\* C28: every mapping that mapDataStructures returns holds at least one
\* target match; a call whose source has a field and whose target has none
\* fails with a TypeError, the records of both structures appended.
C28_NoMappingWithoutCandidate ==
    /\ MapReturned =>
         \A i \in 1..Len(last.fieldMappings) :
             Len(last.fieldMappings[i].targetMatches) >= 1
    /\ MappedOntoNoField =>
         /\ last.err = "TypeError"
         /\ last.fieldMappings = <<>>
         /\ AppendedSince(last) = StructureRecords(last.sourceEmbedded)
                                  \o StructureRecords(last.targetEmbedded)

\* A structure of one field was mapped onto a structure of none: the call
\* failed and the store holds the three records of the two.
C28_Witness ==
    /\ MappedOntoNoField
    /\ last.sourcePath = "d/person.json"
    /\ last.targetPath = "d/null.json"
    /\ last.err = "TypeError"
    /\ Len(vectorStore) = last.before + 3

---------------------------------------------------------------------------
(* The end of a batch *)

\* embedBatch was called on a list of texts and passed its argument check.
BatchOfTexts == batch.argument = "arr" /\ Len(batch.texts) > 0

\* The chunks a call with a positive batch size has issued.
ChunksIssued ==
    IF batch.phase \in {"await", "thrown"}
    THEN batch.i \div batch.batchSize + 1
    ELSE batch.i \div batch.batchSize

\* Every text was requested once, and answered.
OneRequestPerText ==
    /\ Len(batch.order) = Len(batch.texts)
    /\ \A k \in 1..Len(batch.texts) : \E n \in 1..Len(batch.order) : batch.order[n] = k

\* C29 as stated: a call with a batch size of 0 or less never settles,
\* neither returning nor throwing, its index never past the input; a call
\* with a batch size of 1 or more that returns has issued at most
\* ceil(n / batchSize) chunks and one request per text.
C29_SettlesIffPositive ==
    /\ (BatchOfTexts /\ batch.batchSize <= 0) =>
         /\ batch.phase \notin {"returned", "thrown"}
         /\ batch.i < Len(batch.texts)
    /\ (BatchOfTexts /\ batch.batchSize >= 1 /\ batch.phase = "returned") =>
         /\ ChunksIssued <= (Len(batch.texts) + batch.batchSize - 1) \div batch.batchSize
         /\ OneRequestPerText

\* C29, amended: a call with a batch size of 1 or more settles when every
\* request completes, after at most ceil(n / batchSize) chunks and at most
\* one request per text, exactly one when it returns. A call with a batch
\* size of 0 or less never returns, its index never past the input: with 0
\* it sends no request and never settles; with a negative size it requests
\* the texts of texts.slice(0, batchSize) alone, and throws only when one of
\* those fails.
C29_ReturnsOnlyIfPositive ==
    /\ [](BatchOfTexts =>
            /\ batch.batchSize <= 0 =>
                 /\ batch.phase # "returned"
                 /\ batch.i <= 0
            /\ batch.batchSize = 0 =>
                 /\ batch.phase \in {"loop", "await"}
                 /\ batch.results = <<>>
                 /\ batch.order = <<>>
            /\ batch.batchSize < 0 =>
                 /\ \A n \in 1..Len(batch.order) :
                      batch.order[n] <= Len(batch.texts) + batch.batchSize
                 /\ batch.phase = "thrown" =>
                      \E k \in 1..(Len(batch.texts) + batch.batchSize) :
                          InvalidText(batch.texts[k]) \/ batch.answered[k] = Rejected
            /\ batch.batchSize >= 1 =>
                 /\ ChunksIssued
                      <= (Len(batch.texts) + batch.batchSize - 1) \div batch.batchSize
                 /\ \A m, n \in 1..Len(batch.order) :
                      batch.order[m] = batch.order[n] => m = n
                 /\ batch.phase = "returned" => OneRequestPerText)
    /\ (BatchOfTexts /\ batch.batchSize >= 1 /\ batch.phase = "loop")
         ~> (batch.phase \in {"returned", "thrown"})

\* A call on three texts with a batch size of -1 has requested the first two
\* texts, both were answered, and its loop turns with an index below 0.
C29_Witness ==
    /\ BatchOfTexts
    /\ Len(batch.texts) = 3
    /\ batch.batchSize = -1
    /\ batch.phase = "loop"
    /\ batch.i = -2
    /\ Len(batch.order) = 2
    /\ Len(batch.embeddings) = 2

====
